---- MODULE Spec2Model ----
(***************************************************************************)
(* Model of the consensus storage bridge                                   *)
(* (core/lib/zksync_core/src/consensus/storage.rs).                        *)
(*                                                                         *)
(* The relational log is shared by every Store handle.  The execution      *)
(* pipeline appends sealed miniblocks to it; the Store appends             *)
(* certificates.  Every awaited storage call of an operation is one step   *)
(* of the process running it, so calls of different operations interleave  *)
(* between any two storage calls.                                          *)
(*                                                                         *)
(* An Option<T> of the source is a set with at most one element:           *)
(* {} is None and {x} is Some(x).                                          *)
(***************************************************************************)
EXTENDS Integers, Sequences, FiniteSets, TLC

\* Highest miniblock number the execution pipeline seals in the model.
MaxBlock == 2

\* The largest ConnectionPool a Store is created with.
MaxPool == 2

\* The number of tasks ApiServer::run spawns.
NumApiTasks == 3

\* The highest chain id of an interop root.
MaxChain == 2

\* The highest dependency block number of an interop root.
MaxDep == 2

\* The most events process_events is given at once.
MaxEvents == 2

\* The most certificates of an issuer chain.
MaxCerts == 3

\* usize::MAX, scaled down.
UsizeMax == 15

\* The most fragments a JSON body is put together from.
MaxPieces == 3

\* The most pushes to the action queue that are followed where the pushes
\* are not bounded by the block numbers.
MaxActions == 3

BlockNumbers == 0..MaxBlock

\* The highest execution-layer block number (MiniblockNumber is a u32),
\* scaled down: u32::MAX stands above every miniblock the model seals, and
\* consensus block numbers (u64) reach beyond it.
U32Max == 7

\* The consensus block numbers offered to store_next_block, one of them
\* beyond the execution layer's range.
WideNumbers == BlockNumbers \cup {U32Max + 1}

\* Operator addresses configured in the Store handles (Store.operator_addr).
Operators == {"opA", "opB"}

\* Tasks running try_init_genesis, one call each: on handles configured
\* with different operator addresses,
GenProcs == {"g1", "g2"}

\* and on handles of one node, configured with the same operator address.
NodeGenProcs == {"g1", "g3"}

AllGenProcs == GenProcs \cup NodeGenProcs

\* Tasks calling store_next_block, any number of calls each.
StoreProcs == {"s1", "s2"}

\* Tasks calling ReplicaStore::set_state, any number of calls each.
SetProcs == {"w1", "w2"}

\* Every task of the model: the callers above and the single callers of
\* state, block, propose / verify and ReplicaStore::state.
Tasks ==
    AllGenProcs \cup StoreProcs \cup SetProcs \cup {"rd", "bk", "pm", "rget"}

\* Store.operator_addr of the handle a task uses.  The callers of
\* store_next_block share the cursor, so they are callers on one Store and
\* write its operator address; g2 bootstraps through a Store configured
\* with another one.
OperatorOf(p) == IF p = "g2" THEN "opB" ELSE "opA"

\* The quorum certificate content the consensus engine hands to a task.
QcOf(p) == IF p = "s1" THEN "qc1" ELSE "qc2"

VARIABLES
    sealed,     \* blocks_dal: number of the last sealed miniblock
    certs,      \* certificates table: committed rows, in commit order
    gen,        \* try_init_genesis tasks
    st,         \* store_next_block tasks
    acked,      \* block numbers for which store_next_block returned Ok(())
    cursor,     \* Store.cursor
    actions,    \* the action stream: block numbers in the order pushed
    rd,         \* PersistentBlockStore::state task
    bk,         \* PersistentBlockStore::block task
    pm,         \* PayloadManager::propose / ::verify task
    lock,       \* Cursor.inner: the task holding the mutex, or "free"
    cancel,     \* ctx: the cancellation signal
    replica,    \* replica state: the persisted blob
    rset,       \* ReplicaStore::set_state tasks
    rget,       \* ReplicaStore::state task
    rlast,      \* the blob of the latest set_state that completed
    held,       \* the result of state() its caller holds from the last call
    lost,       \* blocks whose call pushed the actions and then failed
    failed,     \* per task: the sub-step that failed in its call, or "none"
    pool,       \* the number of connections of the ConnectionPool
    api,        \* Web3ApiTask, its API tasks and ApiTaskGarbageCollector
    interop,    \* the interop_roots table and what its callers got back
    tee         \* the TEE DCAP collateral and the call updating it

\* The tasks that only read the log.
readers == <<rd, bk, pm>>

\* The replica state and its tasks.
replicas == <<replica, rset, rget, rlast>>

\* What the callers remember of earlier calls.
callers == <<held, lost>>

\* What no operation of the Store changes.
extra == <<pool, api, interop, tee>>

\* What the operations on the certificates leave alone,
quiet == <<lock, cancel, replicas, callers, extra>>

\* with the record of failed sub-steps, which a returning call clears.
aux == <<quiet, failed>>

vars == <<sealed, certs, gen, st, acked, cursor, actions, rd, bk, pm,
          lock, cancel, replica, rset, rget, rlast, held, lost, failed,
          extra>>

\* The variables of the consensus Store.
storeVars ==
    <<sealed, certs, gen, st, acked, cursor, actions, rd, bk, pm, lock,
      cancel, replica, rset, rget, rlast, held, lost, failed, pool>>

----------------------------------------------------------------------------
(* Sequences and options *)

Range(s) == {s[i] : i \in 1..Len(s)}

Some(x) == {x}

None == {}

Unwrap(o) == CHOOSE x \in o : TRUE

----------------------------------------------------------------------------
(* zksync_dal: the certificates table, blocks and payloads *)

\* A row of the certificates table.
Row(n, op, qc) == [number |-> n, operator |-> op, qc |-> qc]

RowKey(r) == <<r.number, r.operator>>

\* make_genesis: the certificate of the genesis block, which has no parent.
GenesisQc == "genesis"

IsGenesis(r) == r.qc = GenesisQc

\* consensus_dal().first_certificate(): the row with the lowest number.
FirstCertificate(rows) ==
    IF rows = {} THEN None
    ELSE Some(CHOOSE r \in rows : \A o \in rows : r.number <= o.number)

\* consensus_dal().last_certificate(): the row with the highest number.
LastCertificate(rows) ==
    IF rows = {} THEN None
    ELSE Some(CHOOSE r \in rows : \A o \in rows : r.number >= o.number)

\* consensus_dal().certificate(number).
Certificate(rows, n) ==
    IF \E r \in rows : r.number = n
    THEN Some(CHOOSE r \in rows : r.number = n)
    ELSE None

\* The uniqueness constraint of the certificates table on its key.
KeyConflict(rows, r) == \E o \in rows : RowKey(o) = RowKey(r)

ParentOkAlways(rows, r) == TRUE

\* The genesis/parent relationship a certificate must satisfy to be
\* inserted: the first certificate is a genesis certificate, every other
\* one follows the last stored certificate.
ParentOk(rows, r) ==
    IF rows = {} THEN IsGenesis(r)
    ELSE /\ ~IsGenesis(r)
         /\ r.number = Unwrap(LastCertificate(rows)).number + 1

\* consensus_dal().insert_certificate(cert, operator_addr): whether the
\* statement succeeds against the rows it sees.
InsertOk(rows, r) == ParentOk(rows, r) /\ ~KeyConflict(rows, r)

\* The payload the execution pipeline recorded for a sealed miniblock.
PayloadHash(n) == <<"hash", n>>

\* consensus_dal().block_payload(number, operator_addr, true).
BlockPayload(lastSealed, n, op) ==
    IF n <= lastSealed
    THEN Some([hash |-> PayloadHash(n), operator_addr |-> op])
    ELSE None

\* Payload::encode: the wire form of a payload.
Encode(payload) == <<"payload", payload.hash, payload.operator_addr>>

\* Payload::decode: None for bytes that are no payload.
Decode(wire) ==
    IF Len(wire) = 3 /\ wire[1] = "payload"
    THEN Some([hash |-> wire[2], operator_addr |-> wire[3]])
    ELSE None

\* Bytes that do not decode.
Garbage == <<"garbage">>

\* blocks_dal().get_sealed_miniblock_number().
GetSealedMiniblockNumber == sealed

\* The log loses its last miniblock (a revert of the execution layer made
\* outside of the Store): the payload of a certified block may be gone.
RevertBlocks ==
    /\ sealed > 0
    /\ sealed' = sealed - 1
    /\ UNCHANGED <<extra, certs, gen, st, acked, cursor, actions, rd, bk, pm, lock,
                   cancel, replica, rset, rget, rlast, held, lost, failed>>

\* The certificates table is emptied outside of the Store.
DeleteCertificates ==
    /\ certs # <<>>
    /\ certs' = <<>>
    /\ UNCHANGED <<extra, sealed, gen, st, acked, cursor, actions, rd, bk, pm, lock,
                   cancel, replica, rset, rget, rlast, held, lost, failed>>

----------------------------------------------------------------------------
(* The execution pipeline *)

\* The state keeper seals the next miniblock.
Seal ==
    /\ sealed < MaxBlock
    /\ sealed' = sealed + 1
    /\ UNCHANGED <<aux, readers, certs, gen, st, acked, cursor, actions>>

\* The state keeper of a node in follower mode: it seals the next miniblock
\* once the actions of that block have come through the action queue.
SealFetched ==
    /\ cursor.installed
    /\ sealed < MaxBlock
    /\ \E i \in 1..Len(actions) : actions[i] = sealed + 1
    /\ sealed' = sealed + 1
    /\ UNCHANGED <<aux, readers, certs, gen, st, acked, cursor, actions>>

----------------------------------------------------------------------------
(* ctx: cancellation *)

\* at: where each store_next_block task was when the signal was given.
NotCanceled == [on |-> FALSE, at |-> [p \in StoreProcs |-> "idle"]]

InterruptedNever == FALSE

\* ctx.wait(..) and ctx.sleep(..): after the signal the awaited call is
\* given up.
Interrupted == cancel.on

\* storage.new_fetcher_cursor(ctx): FetcherCursor::new, the block after the
\* last sealed miniblock.
NewFetcherCursor(lastSealed) == lastSealed + 1

----------------------------------------------------------------------------
(* Store::try_init_genesis *)

\* second: the call began after another try_init_genesis had returned Ok(()).
GenIdle == [pc |-> "idle", number |-> 0, pend |-> None, res |-> "none",
            second |-> FALSE, dropped |-> FALSE]

GenReturnedOk(q) == gen[q].pc = "done" /\ gen[q].res = "ok"

\* storage.last_miniblock_number(ctx), outside of the transaction.
GenReadNumber(p) ==
    /\ gen[p].pc = "idle"
    /\ ~Interrupted
    /\ gen' = [gen EXCEPT ![p] =
                  [@ EXCEPT !.pc = "txn",
                            !.number = GetSealedMiniblockNumber,
                            !.second = \E q \in AllGenProcs \ {p} : GenReturnedOk(q)]]
    /\ UNCHANGED <<aux, readers, sealed, certs, st, acked, cursor, actions>>

GenSkipNever(first) == FALSE

\* The early return of try_init_genesis when a first certificate exists.
GenSkip(first) == first # None

\* storage.start_transaction(ctx) and txn.first_certificate(ctx).
GenCheck(p) ==
    /\ gen[p].pc = "txn"
    /\ ~Interrupted
    /\ gen' = [gen EXCEPT ![p] =
                  IF GenSkip(FirstCertificate(Range(certs)))
                  THEN [@ EXCEPT !.pc = "done", !.res = "ok"]
                  ELSE [@ EXCEPT !.pc = "insert"]]
    /\ UNCHANGED <<aux, readers, sealed, certs, st, acked, cursor, actions>>

\* txn.payload(ctx, number, operator_addr), make_genesis and
\* txn.insert_certificate(ctx, &genesis.justification): the row is written
\* inside the transaction and stays invisible to other accessors.
GenInsert(p) ==
    /\ gen[p].pc = "insert"
    /\ ~Interrupted
    /\ LET payload == BlockPayload(sealed, gen[p].number, OperatorOf(p))
           row == Row(gen[p].number, OperatorOf(p), GenesisQc)
       IN  gen' = [gen EXCEPT ![p] =
                      IF payload # None /\ InsertOk(Range(certs), row)
                      THEN [@ EXCEPT !.pc = "commit", !.pend = Some(row)]
                      ELSE [@ EXCEPT !.pc = "done", !.res = "err"]]
    /\ UNCHANGED <<aux, readers, sealed, certs, st, acked, cursor, actions>>

DropTransactionCommits(rows, pend) ==
    IF pend = None THEN rows ELSE Append(rows, Unwrap(pend))

\* The transaction is dropped without commit: the committed rows stay as
\* they are and the pending write is discarded.
DropTransaction(rows, pend) == rows

\* txn.commit(ctx): the written row becomes visible, unless a row with its
\* key was committed meanwhile.
GenCommit(p) ==
    /\ gen[p].pc = "commit"
    /\ ~Interrupted
    /\ LET row == Unwrap(gen[p].pend)
       IN  IF KeyConflict(Range(certs), row)
           THEN /\ gen' = [gen EXCEPT ![p] =
                              [@ EXCEPT !.pc = "done", !.res = "err",
                                        !.pend = None, !.dropped = TRUE]]
                /\ certs' = DropTransaction(certs, gen[p].pend)
           ELSE /\ gen' = [gen EXCEPT ![p] =
                              [@ EXCEPT !.pc = "done", !.res = "ok"]]
                /\ certs' = Append(certs, row)
    /\ UNCHANGED <<aux, readers, sealed, st, acked, cursor, actions>>

\* A ctx.wait of try_init_genesis after the cancellation signal: the call
\* returns Canceled and its transaction, if begun, is dropped uncommitted.
\* dropped: a written row was pending in the transaction.
GenCanceled(p) ==
    /\ gen[p].pc \in {"idle", "txn", "insert", "commit"}
    /\ Interrupted
    /\ gen' = [gen EXCEPT ![p] =
                  [@ EXCEPT !.pc = "done", !.res = "canceled", !.pend = None,
                            !.dropped = gen[p].pend # None]]
    /\ certs' = DropTransaction(certs, gen[p].pend)
    /\ UNCHANGED <<aux, readers, sealed, st, acked, cursor, actions>>

----------------------------------------------------------------------------
(* PersistentBlockStore::store_next_block *)

\* seen: the cursor position the call compared its block with; pushed:
\* the call pushed the actions of its block; waited: the poll loop found
\* the block not sealed yet; wrote: the insert statement of the call added
\* its row.
StIdle == [pc |-> "idle", number |-> 0, read |-> 0, res |-> "none",
           seen |-> 0, pushed |-> FALSE, waited |-> FALSE, wrote |-> FALSE,
           bad |-> FALSE]

\* u32::try_from(block.header().number.0)
TryFromU32(n) == IF n <= U32Max THEN Some(n) ELSE None

DecodeFailsNever(wire) == FALSE

\* Payload::decode(&block.payload) returns an error.
DecodeFails(wire) == Decode(wire) = None

\* if let Some(cursor) = self.cursor: the call starts, in the poll loop
\* when no cursor is installed.  With a cursor the block number is
\* converted first, and the call fails with "Integer overflow converting
\* block number" when it does not fit; then the payload is decoded, and the
\* call fails with "Failed deserializing block payload" when it is no
\* payload.  bad: the payload of the block does not decode.
StoreBeginBlock(p, n, wire) ==
    /\ st[p].pc = "idle"
    /\ LET call == [StIdle EXCEPT !.number = n, !.bad = Decode(wire) = None]
       IN  st' = [st EXCEPT ![p] =
                     IF ~cursor.installed
                     THEN [call EXCEPT !.pc = "poll"]
                     ELSE IF TryFromU32(n) = None
                     THEN [call EXCEPT !.pc = "done", !.res = "overflow"]
                     ELSE IF DecodeFails(wire)
                     THEN [call EXCEPT !.pc = "done", !.res = "decode"]
                     ELSE [call EXCEPT !.pc = "check"]]
    /\ UNCHANGED <<aux, readers, sealed, certs, gen, acked, cursor, actions>>

\* The payload of the block the consensus engine certified under a number.
CertifiedPayload(p, n) ==
    Encode([hash |-> PayloadHash(n), operator_addr |-> OperatorOf(p)])

\* store_next_block with a block whose payload is well formed.
StoreBegin(p, n) == StoreBeginBlock(p, n, CertifiedPayload(p, n))

CursorAcceptsNone(c, n) == FALSE

CursorAcceptsAll(c, n) == TRUE

CursorAcceptsBehind(c, n) == c.next <= n + 1

\* cursor.next_miniblock <= number
CursorAccepts(c, n) == c.next <= n

\* The test of the block number against the cursor, made before the mutex
\* is taken; a block behind the cursor goes to the poll loop.
StoreCursorCheck(p) ==
    /\ st[p].pc = "check"
    /\ st' = [st EXCEPT ![p] =
                 [@ EXCEPT !.pc = IF CursorAccepts(cursor, st[p].number)
                                  THEN "advance" ELSE "poll",
                           !.seen = cursor.next]]
    /\ UNCHANGED <<aux, readers, sealed, certs, gen, acked, cursor, actions>>

\* FetcherCursor::advance(block): the cursor moves past the block.
Advance(c, n) == [c EXCEPT !.next = n + 1]

\* cursor.inner.lock().unwrap().advance(block): the task takes the mutex
\* and advances the cursor.  The guard is a temporary of the statement that
\* awaits push_actions, so the mutex stays taken.
StoreAdvance(p) ==
    /\ st[p].pc = "advance"
    /\ lock = "free"
    /\ lock' = p
    /\ cursor' = Advance(cursor, st[p].number)
    /\ st' = [st EXCEPT ![p] = [@ EXCEPT !.pc = "push"]]
    /\ UNCHANGED <<extra, failed, cancel, replicas, callers, readers, sealed,
                   certs, gen, acked,
                   actions>>

\* cursor.actions.push_actions(..).await completes: the actions are in the
\* queue, the statement ends and the guard is dropped.  The await is not
\* wrapped in ctx.wait.
StorePush(p) ==
    /\ st[p].pc = "push"
    /\ actions' = Append(actions, st[p].number)
    /\ lock' = IF lock = p THEN "free" ELSE lock
    /\ st' = [st EXCEPT ![p] = [@ EXCEPT !.pc = "poll", !.pushed = TRUE]]
    /\ UNCHANGED <<extra, failed, cancel, replicas, callers, readers, sealed,
                   certs, gen, acked,
                   cursor>>

StoreReadyNext(lastSealed, n) == lastSealed + 1 >= n

StoreReadyAlways(lastSealed, n) == TRUE

StoreReadyStrict(lastSealed, n) == lastSealed > n

\* number >= block.header().number
StoreReady(lastSealed, n) == lastSealed >= n

\* One iteration of the poll loop up to its test:
\* storage.last_miniblock_number(ctx), then either on to the insert or
\* ctx.sleep(POLL_INTERVAL) and another iteration.
StorePoll(p) ==
    /\ st[p].pc = "poll"
    /\ ~Interrupted
    /\ LET number == GetSealedMiniblockNumber
       IN  st' = [st EXCEPT ![p] =
                     IF StoreReady(number, st[p].number)
                     THEN [@ EXCEPT !.pc = "insert", !.read = number]
                     ELSE [@ EXCEPT !.waited = TRUE]]
    /\ UNCHANGED <<aux, readers, sealed, certs, gen, acked, cursor, actions>>

StoreOutcomeIgnoringError(inserted) == "ok"

\* .wrap("insert_certificate()")?; return Ok(()): the call fails when the
\* statement failed.
StoreOutcome(inserted) == IF inserted THEN "ok" ELSE "err"

\* storage.insert_certificate(ctx, &block.justification, operator_addr),
\* one statement, and the return of the call.
StoreInsert(p) ==
    /\ st[p].pc = "insert"
    /\ ~Interrupted
    /\ LET row == Row(st[p].number, OperatorOf(p), QcOf(p))
           inserted == InsertOk(Range(certs), row)
           res == StoreOutcome(inserted)
       IN  /\ certs' = IF inserted THEN Append(certs, row) ELSE certs
           /\ acked' = IF res = "ok" THEN acked \cup {st[p].number} ELSE acked
           /\ st' = [st EXCEPT ![p] = [@ EXCEPT !.pc = "done", !.res = res,
                                                 !.wrote = inserted]]
    /\ UNCHANGED <<aux, readers, sealed, gen, cursor, actions>>

\* ctx.wait and ctx.sleep of the poll loop after the cancellation signal:
\* the pending call (pool access, query, insert or sleep) is dropped and
\* the operation returns Canceled.
StoreCanceled(p) ==
    /\ st[p].pc \in {"poll", "insert"}
    /\ Interrupted
    /\ st' = [st EXCEPT ![p] = [@ EXCEPT !.pc = "done", !.res = "canceled"]]
    /\ UNCHANGED <<aux, readers, sealed, certs, gen, acked, cursor, actions>>

\* The caller takes the result; the task is free for the next call.
StoreReturn(p) ==
    /\ st[p].pc = "done"
    /\ st' = [st EXCEPT ![p] = StIdle]
    /\ failed' = [failed EXCEPT ![p] = "none"]
    /\ UNCHANGED <<quiet, readers, sealed, certs, gen, acked, cursor, actions>>

\* The cancellation of ctx (by the caller, or on shutdown).
Cancel ==
    /\ ~cancel.on
    /\ cancel' = [on |-> TRUE, at |-> [p \in StoreProcs |-> st[p].pc]]
    /\ UNCHANGED <<extra, failed, lock, replicas, callers, readers, sealed, certs,
                   gen, st, acked,
                   cursor, actions>>

\* No store_next_block call is running.
StoresIdle == \A p \in StoreProcs : st[p].pc = "idle"

\* Store::set_actions_queue: storage.new_fetcher_cursor(ctx), then
\* self.cursor is assigned, whether or not a cursor was there: the new
\* cursor starts after the last sealed miniblock and keeps the sender it is
\* given.  Nothing is taken out of the queue.  The call borrows the Store
\* mutably, so no other call on the handle is running.
SetActionsQueue ==
    /\ ~Interrupted
    /\ StoresIdle
    /\ cursor' = [installed |-> TRUE, next |-> NewFetcherCursor(sealed)]
    /\ UNCHANGED <<aux, readers, sealed, certs, gen, st, acked, actions>>

----------------------------------------------------------------------------
(* PersistentBlockStore::state and ::block *)

Ok(v) == [ok |-> TRUE, val |-> v]

Err(e) == [ok |-> FALSE, val |-> e]

StateResultAbsentIsError(first, last) ==
    IF first = None THEN Err("no certificate")
    ELSE Ok(Some([first |-> Unwrap(first), last |-> Unwrap(last)]))

StateResultFirstOnly(first, last) ==
    IF first = None THEN Ok(None)
    ELSE Ok(Some([first |-> Unwrap(first), last |-> Unwrap(first)]))

StateResultSwapped(first, last) ==
    IF first = None THEN Ok(None)
    ELSE IF last = None THEN Err("genesis block disappeared from db")
    ELSE Ok(Some([first |-> Unwrap(last), last |-> Unwrap(first)]))

\* state(): None without a first certificate, an error when the last
\* certificate is missing, the range otherwise.
StateResult(first, last) ==
    IF first = None THEN Ok(None)
    ELSE IF last = None THEN Err("genesis block disappeared from db")
    ELSE Ok(Some([first |-> Unwrap(first), last |-> Unwrap(last)]))

BlockResultAbsentIsError(justification, payload) ==
    IF justification = None \/ payload = None
    THEN Err("miniblock disappeared from storage")
    ELSE Ok(Some([payload |-> Unwrap(payload),
                  justification |-> Unwrap(justification)]))

BlockResultMissingIsAbsent(justification, payload) ==
    IF justification = None \/ payload = None THEN Ok(None)
    ELSE Ok(Some([payload |-> Unwrap(payload),
                  justification |-> Unwrap(justification)]))

\* block(number): None without the certificate, an error when the payload
\* is missing, the payload and the certificate otherwise.
BlockResult(justification, payload) ==
    IF justification = None THEN Ok(None)
    ELSE IF payload = None THEN Err("miniblock disappeared from storage")
    ELSE Ok(Some([payload |-> Unwrap(payload),
                  justification |-> Unwrap(justification)]))

\* state() and block(number) run against the log without interruption.
StateNow == StateResult(FirstCertificate(Range(certs)),
                        LastCertificate(Range(certs)))

BlockNow(n, op) == BlockResult(Certificate(Range(certs), n),
                               BlockPayload(sealed, n, op))

----------------------------------------------------------------------------
(* The tasks of PersistentBlockStore::state and ::block *)

\* ackStart: the block numbers store_next_block had returned Ok(()) for when
\* the call began; rowsFirst, rowsLast: the number of committed rows when
\* each query ran.
RdIdle == [pc |-> "idle", first |-> None, last |-> None, res |-> Ok(None),
           ackStart |-> {}, rowsFirst |-> 0, rowsLast |-> 0]

\* CtxStorage::access: the call begins.
StateBegin ==
    /\ rd.pc = "idle"
    /\ rd' = [rd EXCEPT !.pc = "first", !.ackStart = acked]
    /\ UNCHANGED <<aux, sealed, certs, gen, st, acked, cursor, actions, bk,
                 pm>>

\* storage.first_certificate(ctx), and the return of None without one.
StateFirst ==
    /\ rd.pc = "first"
    /\ ~Interrupted
    /\ LET first == FirstCertificate(Range(certs))
       IN  rd' = IF first = None
                 THEN [rd EXCEPT !.pc = "done", !.rowsFirst = Len(certs),
                                 !.res = StateResult(first, None)]
                 ELSE [rd EXCEPT !.pc = "last", !.rowsFirst = Len(certs),
                                 !.first = first]
    /\ UNCHANGED <<aux, sealed, certs, gen, st, acked, cursor, actions, bk,
                 pm>>

\* storage.last_certificate(ctx), and the return of the range.
StateLast ==
    /\ rd.pc = "last"
    /\ ~Interrupted
    /\ LET last == LastCertificate(Range(certs))
       IN  rd' = [rd EXCEPT !.pc = "done", !.rowsLast = Len(certs),
                            !.last = last,
                            !.res = StateResult(rd.first, last)]
    /\ UNCHANGED <<aux, sealed, certs, gen, st, acked, cursor, actions, bk,
                 pm>>

\* A ctx.wait of state after the cancellation signal.
StateCanceled ==
    /\ rd.pc \in {"first", "last"}
    /\ Interrupted
    /\ rd' = [rd EXCEPT !.pc = "done", !.res = Err("canceled")]
    /\ UNCHANGED <<aux, sealed, certs, gen, st, acked, cursor, actions, bk,
                   pm>>

\* The caller takes the result.
StateReturn ==
    /\ rd.pc = "done"
    /\ rd' = RdIdle
    /\ failed' = [failed EXCEPT !["rd"] = "none"]
    /\ UNCHANGED <<quiet, sealed, certs, gen, st, acked, cursor, actions, bk,
                 pm>>

\* The caller takes a successful result and keeps it to compare the next one
\* with.
StateKeep ==
    /\ rd.pc = "done"
    /\ rd.res.ok
    /\ held' = rd.res
    /\ rd' = RdIdle
    /\ failed' = [failed EXCEPT !["rd"] = "none"]
    /\ UNCHANGED <<extra, lost, lock, cancel, replicas, sealed, certs, gen, st,
                   acked, cursor, actions, bk, pm>>

\* rowsCert: the number of committed rows when the certificate was queried.
BkIdle == [pc |-> "idle", number |-> 0, cert |-> None, payload |-> None,
           res |-> Ok(None), ackStart |-> {}, rowsCert |-> 0]

\* CtxStorage::access: block(number) begins.
BlockBegin(n) ==
    /\ bk.pc = "idle"
    /\ bk' = [bk EXCEPT !.pc = "cert", !.number = n, !.ackStart = acked]
    /\ UNCHANGED <<aux, sealed, certs, gen, st, acked, cursor, actions, rd,
                 pm>>

\* storage.certificate(ctx, number), and the return of None without it.
BlockCertificate ==
    /\ bk.pc = "cert"
    /\ ~Interrupted
    /\ LET justification == Certificate(Range(certs), bk.number)
       IN  bk' = IF justification = None
                 THEN [bk EXCEPT !.pc = "done", !.rowsCert = Len(certs),
                                 !.res = BlockResult(justification, None)]
                 ELSE [bk EXCEPT !.pc = "payload", !.rowsCert = Len(certs),
                                 !.cert = justification]
    /\ UNCHANGED <<aux, sealed, certs, gen, st, acked, cursor, actions, rd,
                 pm>>

\* storage.payload(ctx, number, operator_addr), and the return of the block.
BlockPayloadRead ==
    /\ bk.pc = "payload"
    /\ ~Interrupted
    /\ LET payload == BlockPayload(sealed, bk.number, OperatorOf("reader"))
       IN  bk' = [bk EXCEPT !.pc = "done", !.payload = payload,
                            !.res = BlockResult(bk.cert, payload)]
    /\ UNCHANGED <<aux, sealed, certs, gen, st, acked, cursor, actions, rd,
                 pm>>

\* A ctx.wait of block after the cancellation signal.
BlockCanceled ==
    /\ bk.pc \in {"cert", "payload"}
    /\ Interrupted
    /\ bk' = [bk EXCEPT !.pc = "done", !.res = Err("canceled")]
    /\ UNCHANGED <<aux, sealed, certs, gen, st, acked, cursor, actions, rd,
                   pm>>

\* The caller takes the result.
BlockReturn ==
    /\ bk.pc = "done"
    /\ bk' = BkIdle
    /\ failed' = [failed EXCEPT !["bk"] = "none"]
    /\ UNCHANGED <<quiet, sealed, certs, gen, st, acked, cursor, actions, rd,
                 pm>>

----------------------------------------------------------------------------
(* PayloadManager::propose and ::verify *)

\* The payloads a peer may propose.
Candidates ==
    {Encode([hash |-> PayloadHash(n), operator_addr |-> op]) :
        n \in BlockNumbers, op \in Operators} \cup {Garbage}

\* block_number.prev(), for the block numbers that have a parent.
PrevBlock(n) == n - 1

ParentMissingNever(parent) == FALSE

\* .with_context(format!("parent of {block_number:?} is missing"))?
ParentMissing(parent) == parent = None

VerifyResultHashOnly(want, got) ==
    LET w == Decode(want)
        g == Decode(got)
    IN  IF w = None THEN Err("Payload::decode(want)")
        ELSE IF g = None THEN Err("Payload::decode(got)")
        ELSE IF Unwrap(g).hash # Unwrap(w).hash THEN Err("unexpected payload")
        ELSE Ok(<<>>)

\* verify, once propose has returned `want`.
VerifyResult(want, got) ==
    LET w == Decode(want)
        g == Decode(got)
    IN  IF w = None THEN Err("Payload::decode(want)")
        ELSE IF g = None THEN Err("Payload::decode(got)")
        ELSE IF g # w THEN Err("unexpected payload")
        ELSE Ok(<<>>)

\* rowsParent, sealedParent: the number of committed rows and the last
\* sealed miniblock when the parent certificate was queried; polled: the
\* polling loop has been entered.
PmIdle == [pc |-> "idle", op |-> "propose", number |-> 1, cand |-> Garbage,
           res |-> Ok(<<>>), rowsParent |-> 0, sealedParent |-> 0,
           polled |-> FALSE]

\* CtxStorage::access: propose(block_number) or verify(block_number, payload)
\* begins.
PmBegin(op, n, cand) ==
    /\ pm.pc = "idle"
    /\ pm' = [pm EXCEPT !.pc = "parent", !.op = op, !.number = n,
                        !.cand = cand]
    /\ UNCHANGED <<aux, sealed, certs, gen, st, acked, cursor, actions, rd,
                 bk>>

\* storage.certificate(ctx, block_number.prev()): the call fails when the
\* parent certificate is missing.
ProposeParent ==
    /\ pm.pc = "parent"
    /\ ~Interrupted
    /\ LET parent == Certificate(Range(certs), PrevBlock(pm.number))
       IN  pm' = IF ParentMissing(parent)
                 THEN [pm EXCEPT !.pc = "done", !.rowsParent = Len(certs),
                                 !.sealedParent = sealed,
                                 !.res = Err("parent is missing")]
                 ELSE [pm EXCEPT !.pc = "poll", !.rowsParent = Len(certs),
                                 !.sealedParent = sealed]
    /\ UNCHANGED <<aux, sealed, certs, gen, st, acked, cursor, actions, rd,
                 bk>>

ProposePayloadOfParent(lastSealed, n, op) ==
    BlockPayload(lastSealed, PrevBlock(n), op)

\* storage.payload(ctx, block_number, self.operator_addr): the loop asks
\* for the payload of the block it was called with.
ProposePayload(lastSealed, n, op) == BlockPayload(lastSealed, n, op)

ProposeFoundNever(payload) == FALSE

\* if let Some(payload) = storage.payload(..): the loop ends with the first
\* payload the execution pipeline has produced.
ProposeFound(payload) == payload # None

\* One iteration of the polling loop: storage.payload(ctx, block_number,
\* operator_addr), then either the return of the encoded payload (and, for
\* verify, the comparison) or ctx.sleep(POLL_INTERVAL).
ProposePoll ==
    /\ pm.pc = "poll"
    /\ ~Interrupted
    /\ LET payload == ProposePayload(sealed, pm.number, OperatorOf("reader"))
       IN  pm' = IF ProposeFound(payload)
                 THEN [pm EXCEPT !.pc = "done", !.polled = TRUE,
                          !.res = IF pm.op = "propose"
                                  THEN Ok(Encode(Unwrap(payload)))
                                  ELSE VerifyResult(Encode(Unwrap(payload)),
                                                    pm.cand)]
                 ELSE [pm EXCEPT !.polled = TRUE]
    /\ UNCHANGED <<aux, sealed, certs, gen, st, acked, cursor, actions, rd,
                 bk>>

\* A ctx.wait or the ctx.sleep of propose after the cancellation signal.
PmCanceled ==
    /\ pm.pc \in {"parent", "poll"}
    /\ Interrupted
    /\ pm' = [pm EXCEPT !.pc = "done", !.res = Err("canceled")]
    /\ UNCHANGED <<aux, sealed, certs, gen, st, acked, cursor, actions, rd,
                   bk>>

\* The caller takes the result.
PmReturn ==
    /\ pm.pc = "done"
    /\ pm' = PmIdle
    /\ failed' = [failed EXCEPT !["pm"] = "none"]
    /\ UNCHANGED <<quiet, sealed, certs, gen, st, acked, cursor, actions, rd,
                 bk>>

----------------------------------------------------------------------------
(* ReplicaStore::state and ::set_state *)

\* The replica state blobs the consensus engine persists.
Blobs == {"b1", "b2", "b3"}

\* wrote: the latest call of the task has persisted its blob.
RsIdle == [pc |-> "idle", blob |-> "b1", wrote |-> FALSE]

\* expect: the blob of the latest completed set_state when the blob was
\* read.
RgIdle == [pc |-> "idle", res |-> Ok(None), expect |-> None]

SetReplicaStateKeepsFirst(stored, blob) ==
    IF stored = None THEN Some(blob) ELSE stored

\* consensus_dal().set_replica_state(state): the blob replaces the stored
\* one.
SetReplicaState(stored, blob) == Some(blob)

\* consensus_dal().replica_state(): the stored blob, or the empty value.
ReplicaState(stored) == stored

\* CtxStorage::access: set_state(state) begins.
SetStateBegin(p, blob) ==
    /\ rset[p].pc = "idle"
    /\ rset' = [rset EXCEPT ![p] = [pc |-> "set", blob |-> blob,
                                    wrote |-> FALSE]]
    /\ failed' = [failed EXCEPT ![p] = "none"]
    /\ UNCHANGED <<extra, callers, lock, cancel, replica, rget, rlast,
                   readers, sealed, certs,
                   gen, st, acked, cursor, actions>>

\* storage.set_replica_state(ctx, state), and the return of Ok(()).
SetStateWrite(p) ==
    /\ rset[p].pc = "set"
    /\ ~Interrupted
    /\ replica' = SetReplicaState(replica, rset[p].blob)
    /\ rlast' = Some(rset[p].blob)
    /\ rset' = [rset EXCEPT ![p] = [@ EXCEPT !.pc = "idle", !.wrote = TRUE]]
    /\ UNCHANGED <<extra, failed, callers, lock, cancel, rget, readers, sealed,
                   certs, gen, st, acked,
                   cursor, actions>>

\* A ctx.wait of set_state after the cancellation signal: nothing is
\* written.
SetStateCanceled(p) ==
    /\ rset[p].pc = "set"
    /\ Interrupted
    /\ rset' = [rset EXCEPT ![p] = RsIdle]
    /\ UNCHANGED <<extra, failed, callers, lock, cancel, replica, rget, rlast,
                   readers, sealed, certs,
                   gen, st, acked, cursor, actions>>

\* CtxStorage::access: state() begins.
GetStateBegin ==
    /\ rget.pc = "idle"
    /\ rget' = [rget EXCEPT !.pc = "get"]
    /\ UNCHANGED <<extra, failed, callers, lock, cancel, replica, rset, rlast,
                   readers, sealed, certs,
                   gen, st, acked, cursor, actions>>

GetStateReadTakingBlob ==
    /\ rget.pc = "get"
    /\ ~Interrupted
    /\ rget' = [rget EXCEPT !.pc = "done", !.res = Ok(ReplicaState(replica)),
                            !.expect = rlast]
    /\ replica' = None
    /\ UNCHANGED <<extra, failed, callers, lock, cancel, rset, rlast,
                   readers, sealed, certs, gen, st, acked, cursor, actions>>

\* storage.replica_state(ctx), and the return of the blob.
GetStateRead ==
    /\ rget.pc = "get"
    /\ ~Interrupted
    /\ rget' = [rget EXCEPT !.pc = "done", !.res = Ok(ReplicaState(replica)),
                            !.expect = rlast]
    /\ UNCHANGED <<extra, failed, callers, lock, cancel, replica, rset, rlast,
                   readers, sealed, certs,
                   gen, st, acked, cursor, actions>>

\* A ctx.wait of state after the cancellation signal.
GetStateCanceled ==
    /\ rget.pc = "get"
    /\ Interrupted
    /\ rget' = [rget EXCEPT !.pc = "done", !.res = Err("canceled")]
    /\ UNCHANGED <<extra, failed, callers, lock, cancel, replica, rset, rlast,
                   readers, sealed, certs,
                   gen, st, acked, cursor, actions>>

\* The caller takes the result.
GetStateReturn ==
    /\ rget.pc = "done"
    /\ rget' = RgIdle
    /\ failed' = [failed EXCEPT !["rget"] = "none"]
    /\ UNCHANGED <<extra, callers, lock, cancel, replica, rset, rlast,
                   readers, sealed, certs,
                   gen, st, acked, cursor, actions>>

----------------------------------------------------------------------------
(* Failing storage calls: .wrap("name()")? *)

\* The storage calls an operation awaits at each of its positions, by the
\* name it wraps their error with.
GenSteps(pc) ==
    IF pc = "idle" THEN {"access()", "last_miniblock_number()"}
    ELSE IF pc = "txn" THEN {"start_transaction()", "first_certificate()"}
    ELSE IF pc = "insert" THEN {"payload()", "insert_certificate()"}
    ELSE IF pc = "commit" THEN {"commit()"}
    ELSE {}

StoreSteps(pc) ==
    IF pc = "poll" THEN {"access()", "last_miniblock_number()"}
    ELSE IF pc = "insert" THEN {"insert_certificate()"}
    ELSE {}

StateSteps(pc) ==
    IF pc = "first" THEN {"access()", "first_certificate()"}
    ELSE IF pc = "last" THEN {"last_certificate()"}
    ELSE {}

BlockSteps(pc) ==
    IF pc = "cert" THEN {"access()", "certificate()"}
    ELSE IF pc = "payload" THEN {"payload()"}
    ELSE {}

\* The storage calls of propose (and of verify through it): the access and
\* the parent lookup, then the access and the payload query of the loop.
PmSteps(pc) ==
    IF pc = "parent" THEN {"access()", "certificate()"}
    ELSE IF pc = "poll" THEN {"access()", "payload()"}
    ELSE {}

SetStateSteps == {"access()", "set_replica_state()"}

GetStateSteps == {"access()", "replica_state()"}

WrapSwallowed(step) == "ok"

\* .wrap(step)?: the error the operation returns carries the name of the
\* storage call that failed.
Wrap(step) == step

\* A storage call of try_init_genesis fails: the error is returned and the
\* transaction, when one is open, is dropped.
GenFailed(p, step) ==
    /\ step \in GenSteps(gen[p].pc)
    /\ gen' = [gen EXCEPT ![p] =
                  [@ EXCEPT !.pc = "done", !.res = Wrap(step), !.pend = None,
                            !.dropped = gen[p].pend # None]]
    /\ certs' = DropTransaction(certs, gen[p].pend)
    /\ failed' = [failed EXCEPT ![p] = step]
    /\ UNCHANGED <<quiet, readers, sealed, st, acked, cursor, actions>>

\* A storage call of the poll loop of store_next_block fails: the error is
\* returned, after the actions of the block were pushed when the cursor
\* accepted it.
StoreFailed(p, step) ==
    /\ step \in StoreSteps(st[p].pc)
    /\ st' = [st EXCEPT ![p] = [@ EXCEPT !.pc = "done", !.res = Wrap(step)]]
    /\ failed' = [failed EXCEPT ![p] = step]
    /\ lost' = IF st[p].pushed THEN lost \cup {st[p].number} ELSE lost
    /\ UNCHANGED <<extra, held, lock, cancel, replicas, readers, sealed, certs, gen,
                   acked, cursor, actions>>

\* A storage call of state fails.
StateFailed(step) ==
    /\ step \in StateSteps(rd.pc)
    /\ rd' = [rd EXCEPT !.pc = "done", !.res = Err(Wrap(step))]
    /\ failed' = [failed EXCEPT !["rd"] = step]
    /\ UNCHANGED <<quiet, sealed, certs, gen, st, acked, cursor, actions, bk,
                   pm>>

\* A storage call of block fails.
BlockFailed(step) ==
    /\ step \in BlockSteps(bk.pc)
    /\ bk' = [bk EXCEPT !.pc = "done", !.res = Err(Wrap(step))]
    /\ failed' = [failed EXCEPT !["bk"] = step]
    /\ UNCHANGED <<quiet, sealed, certs, gen, st, acked, cursor, actions, rd,
                   pm>>

\* A storage call of propose fails: the `?` returns the wrapped error, which
\* verify passes on, and the connections are released.
PmFailed(step) ==
    /\ step \in PmSteps(pm.pc)
    /\ pm' = [pm EXCEPT !.pc = "done", !.res = Err(Wrap(step))]
    /\ failed' = [failed EXCEPT !["pm"] = step]
    /\ UNCHANGED <<quiet, sealed, certs, gen, st, acked, cursor, actions, rd,
                   bk>>

\* A storage call of set_state fails: nothing is written.
SetStateFailed(p, step) ==
    /\ rset[p].pc = "set"
    /\ step \in SetStateSteps
    /\ rset' = [rset EXCEPT ![p] = [@ EXCEPT !.pc = "idle"]]
    /\ failed' = [failed EXCEPT ![p] = step]
    /\ UNCHANGED <<extra, callers, lock, cancel, replica, rget, rlast, readers,
                   sealed, certs, gen, st, acked, cursor, actions>>

\* A storage call of ReplicaStore::state fails.
GetStateFailed(step) ==
    /\ rget.pc = "get"
    /\ step \in GetStateSteps
    /\ rget' = [rget EXCEPT !.pc = "done", !.res = Err(Wrap(step))]
    /\ failed' = [failed EXCEPT !["rget"] = step]
    /\ UNCHANGED <<extra, callers, lock, cancel, replica, rset, rlast, readers,
                   sealed, certs, gen, st, acked, cursor, actions>>

----------------------------------------------------------------------------
(* Web3ApiTask and ApiTaskGarbageCollector *)

ApiTasks == 1..NumApiTasks

\* What awaiting the JoinHandle of a finished task yields: Ok(Ok(())),
\* Ok(Err(_)) or, for a task that panicked, Err(JoinError).
Outcomes == {"ok", "err", "panic"}

\* web: position and result of Web3ApiTask::run; task: the spawned tasks;
\* chan: the oneshot channel; rem: the handles sent through it; sends: how
\* many times something was sent; first: the task select_all yielded; gc:
\* position of ApiTaskGarbageCollector::run; gcRes: its result.
ApiInit ==
    [web |-> "idle", res |-> "none",
     task |-> [i \in ApiTasks |-> "none"],
     chan |-> "open", rem |-> {}, sends |-> 0, first |-> 0,
     gc |-> "recv", gcRes |-> "none"]

Finished(i) == api.task[i] \in Outcomes

\* self.server.run(stop_receiver.0).await? fails: run returns the error and
\* the sender is dropped with the task.
ApiBuildFails ==
    /\ api.web = "idle"
    /\ api' = [api EXCEPT !.web = "done", !.res = "err", !.chan = "dropped"]
    /\ UNCHANGED <<storeVars, interop, tee>>

\* self.server.run(stop_receiver.0).await? returns the spawned tasks.
ApiBuild ==
    /\ api.web = "idle"
    /\ api' = [api EXCEPT !.web = "select",
                          !.task = [i \in ApiTasks |-> "running"]]
    /\ UNCHANGED <<storeVars, interop, tee>>

\* A spawned API task finishes.
ApiTaskFinishes(i, outcome) ==
    /\ api.task[i] = "running"
    /\ api' = [api EXCEPT !.task[i] = outcome]
    /\ UNCHANGED <<storeVars, interop, tee>>

\* select_all polls the handles in order and yields the first one it finds
\* finished.
SelectAll == CHOOSE i \in ApiTasks :
                 Finished(i) /\ \A j \in ApiTasks : Finished(j) => i <= j

\* rem of select_all: the handles of the other tasks.
Remaining(first) == ApiTasks \ {first}

\* result?: the result of the tasks as the result of run, a JoinError being
\* converted into an error.
RunResult(outcome) == IF outcome = "ok" THEN "ok" ELSE "err"

\* select_all(tasks.tasks).await completes; the remaining handles are sent
\* to the garbage collector and run returns the result of the first task.
ApiSelect ==
    /\ api.web = "select"
    /\ \E i \in ApiTasks : Finished(i)
    /\ api' = [api EXCEPT !.web = "done", !.first = SelectAll,
                          !.res = RunResult(api.task[SelectAll]),
                          !.chan = "sent", !.rem = Remaining(SelectAll),
                          !.sends = @ + 1]
    /\ UNCHANGED <<storeVars, interop, tee>>

\* self.task_receiver.await: the handles, or the return of Ok(()) when the
\* sender was dropped.
GcReceive ==
    /\ api.gc = "recv"
    /\ api.chan # "open"
    /\ api' = IF api.chan = "sent"
              THEN [api EXCEPT !.gc = "join"]
              ELSE [api EXCEPT !.gc = "done", !.gcRes = "ok"]
    /\ UNCHANGED <<storeVars, interop, tee>>

AllJoinedAtOnce(rem) == TRUE

\* join_all(tasks).await is ready: every handle has yielded.
AllJoined(rem) == \A i \in rem : Finished(i)

\* join_all(tasks).await completes and run returns Ok(()).
GcJoin ==
    /\ api.gc = "join"
    /\ AllJoined(api.rem)
    /\ api' = [api EXCEPT !.gc = "done", !.gcRes = "ok"]
    /\ UNCHANGED <<storeVars, interop, tee>>

----------------------------------------------------------------------------
(* InteropRootDal: the interop_roots table *)

RootChains == 1..MaxChain

RootDeps == 1..MaxDep

\* The key of the table: (chain_id, dependency_block_number).
RootKeys == RootChains \X RootDeps

\* The L2 blocks a root is processed in.
RootBlocks == {0, 1}

\* The interop_root_sides of an event.
RootSides == {"sidesA", "sidesB"}

\* rows: per key no row, or the row with its processed_block_number (None
\* for NULL) and sides.  op, res: the last call and what get_new_interop_roots
\* returned.  trip: the unprocessed keys before the last mark, the block of
\* that mark, whether no root was processed at that block before, the keys
\* the mark assigned, and whether the reset of that block has followed.
\* proc: the process_events call under way.
ProcIdle ==
    [pc |-> "idle", cfg |-> [source |-> "L1", sl |-> None],
     events |-> <<>>, i |-> 1, pend |-> <<>>, res |-> Ok(0),
     before |-> [k \in RootKeys |-> None]]

InteropInit ==
    [rows |-> [k \in RootKeys |-> None],
     op |-> "none", res |-> {},
     trip |-> [stage |-> "none", b |-> 0, before |-> {}, clean |-> TRUE,
               hit |-> {}],
     proc |-> ProcIdle]

NoTrip == InteropInit.trip

\* WHERE processed_block_number IS NULL
Unprocessed(rows) ==
    {k \in RootKeys : rows[k] # None /\ Unwrap(rows[k]).processed = None}

\* WHERE processed_block_number = $1
ProcessedAt(rows, b) ==
    {k \in RootKeys : rows[k] # None /\ Unwrap(rows[k]).processed = Some(b)}

\* INSERT .. ON CONFLICT (chain_id, dependency_block_number) DO UPDATE SET
\* interop_root_sides = excluded.interop_root_sides: a new row is
\* unprocessed, an existing row keeps its processed_block_number.
SetInteropRoot(rows, k, sides) ==
    [rows EXCEPT ![k] =
        IF @ = None
        THEN Some([processed |-> None, sides |-> sides])
        ELSE Some([Unwrap(@) EXCEPT !.sides = sides])]

\* SELECT .. WHERE processed_block_number IS NULL ORDER BY
\* received_timestamp, dependency_block_number LIMIT $1: the results the
\* query can give, the received timestamps not being modelled.
GetNewInteropRoots(rows, n) ==
    {s \in SUBSET Unprocessed(rows) :
        Cardinality(s) = IF Cardinality(Unprocessed(rows)) < n
                         THEN Cardinality(Unprocessed(rows)) ELSE n}

MarkExecutedOverwriting(rows, roots, b) ==
    [k \in RootKeys |->
        IF k \in roots /\ rows[k] # None
        THEN Some([Unwrap(rows[k]) EXCEPT !.processed = Some(b)])
        ELSE rows[k]]

\* for root in interop_roots: UPDATE .. SET processed_block_number = $1
\* WHERE chain_id = $2 AND processed_block_number IS NULL AND
\* dependency_block_number = $3.
MarkExecuted(rows, roots, b) ==
    [k \in RootKeys |->
        IF k \in roots /\ k \in Unprocessed(rows)
        THEN Some([Unwrap(rows[k]) EXCEPT !.processed = Some(b)])
        ELSE rows[k]]

\* UPDATE .. SET processed_block_number = NULL WHERE
\* processed_block_number = $1.
ResetState(rows, b) ==
    [k \in RootKeys |->
        IF k \in ProcessedAt(rows, b)
        THEN Some([Unwrap(rows[k]) EXCEPT !.processed = None])
        ELSE rows[k]]

\* set_interop_root(chain_id, number, interop_root, timestamp)
InteropSet(k, sides) ==
    /\ interop' = [interop EXCEPT !.rows = SetInteropRoot(@, k, sides),
                                  !.op = "set", !.res = {}, !.trip = NoTrip]
    /\ UNCHANGED <<storeVars, api, tee>>

\* get_new_interop_roots(number_of_roots)
InteropGetNew(n) ==
    /\ \E s \in GetNewInteropRoots(interop.rows, n) :
          interop' = [interop EXCEPT !.op = "get", !.res = s]
    /\ UNCHANGED <<storeVars, api, tee>>

\* mark_interop_roots_as_executed(interop_roots, l2block_number): the
\* updates of the loop, committed together.
InteropMark(roots, b) ==
    /\ interop' =
          [interop EXCEPT
              !.rows = MarkExecuted(@, roots, b),
              !.op = "mark", !.res = {},
              !.trip = [stage |-> "marked", b |-> b,
                        before |-> Unprocessed(interop.rows),
                        clean |-> ProcessedAt(interop.rows, b) = {},
                        hit |-> roots \cap Unprocessed(interop.rows)]]
    /\ UNCHANGED <<storeVars, api, tee>>

\* mark_interop_roots_as_executed fails in start_transaction, in one of the
\* updates or in commit: the `?` returns and drops the transaction, with the
\* updates made so far.
InteropMarkFails(roots, b) ==
    /\ interop' = [interop EXCEPT !.op = "markfail", !.res = {},
                                  !.trip = NoTrip]
    /\ UNCHANGED <<storeVars, api, tee>>

\* reset_interop_roots_state(l2block_number)
InteropReset(b) ==
    /\ interop' =
          [interop EXCEPT
              !.rows = ResetState(@, b),
              !.op = "reset", !.res = {},
              !.trip = IF @.stage = "marked" /\ @.b = b
                       THEN [@ EXCEPT !.stage = "reset"]
                       ELSE NoTrip]
    /\ UNCHANGED <<storeVars, api, tee>>

----------------------------------------------------------------------------
(* InteropRootProcessor: the eth watcher storing the interop roots *)

\* l2_chain_id, the chain of this node.
OwnChain == 1

Addresses == {"L1_MESSENGER_ADDRESS", "other"}

EventsSources == {"L1", "SL"}

\* InteropRootProcessor::new: sl_chain_id is the chain id of sl_l2_client,
\* None without a client.
Configs == [source : EventsSources,
            sl : {None} \cup {Some(c) : c \in RootChains}]

\* The chain ids and block numbers of the logs: the node's own chain, and
\* two blocks of another chain.
WatchedKeys == {<<OwnChain, 1>>, <<2, 1>>, <<2, 2>>}

\* A NewInteropRoot log: its emitter, the chain id of topics[1], the block
\* number of topics[2], the sides of its data.
Events == {[address |-> a, chain |-> k[1], block |-> k[2], sides |-> "sidesB"] :
              a \in Addresses, k \in WatchedKeys}

EventBatches == UNION {[1..n -> Events] : n \in 0..MaxEvents}

\* SLChainId(chain_id), L1BatchNumber(block_number as u32)
EventKey(e) == <<e.chain, e.block % (U32Max + 1)>>

SkipsUnlessOwn(cfg, e) ==
    \/ e.address = "L1_MESSENGER_ADDRESS"
    \/ cfg.source = "L1" /\ cfg.sl # None /\ Unwrap(cfg.sl) = e.chain

\* The four `continue`s of the loop, the chain id fetched from sl_l2_client
\* being sl_chain_id.
Skips(cfg, e) ==
    \/ cfg.sl # None /\ Unwrap(cfg.sl) = e.chain
                     /\ e.address = "L1_MESSENGER_ADDRESS"
    \/ e.address = "L1_MESSENGER_ADDRESS"
    \/ e.chain = OwnChain
    \/ cfg.source = "L1" /\ cfg.sl # None /\ Unwrap(cfg.sl) = e.chain

RECURSIVE ApplyWrites(_, _)
\* commit: the writes of the transaction, in their order.
ApplyWrites(rows, writes) ==
    IF writes = <<>>
    THEN rows
    ELSE ApplyWrites(SetInteropRoot(rows, Head(writes)[1], Head(writes)[2]),
                     Tail(writes))

ProcessBusy == interop.proc.pc = "loop"

ProcessEvent == interop.proc.events[interop.proc.i]

\* process_events(storage, events): events_count, start_transaction
ProcessBegin(cfg, events) ==
    /\ interop.proc.pc = "idle"
    /\ interop' = [interop EXCEPT
          !.op = "process",
          !.proc = [ProcIdle EXCEPT !.pc = "loop", !.cfg = cfg,
                                    !.events = events,
                                    !.before = interop.rows]]
    /\ UNCHANGED <<storeVars, api, tee>>

\* start_transaction fails.
ProcessBeginFails(cfg, events) ==
    /\ interop.proc.pc = "idle"
    /\ interop' = [interop EXCEPT
          !.op = "process",
          !.proc = [ProcIdle EXCEPT !.pc = "done", !.cfg = cfg,
                                    !.events = events,
                                    !.before = interop.rows,
                                    !.res = Err(0)]]
    /\ UNCHANGED <<storeVars, api, tee>>

\* One turn of the loop: the event is skipped, or set_interop_root writes
\* its root within the transaction.
ProcessNext ==
    /\ ProcessBusy
    /\ interop.proc.i <= Len(interop.proc.events)
    /\ interop' = [interop EXCEPT
          !.proc.i = @ + 1,
          !.proc.pend =
              IF Skips(interop.proc.cfg, ProcessEvent)
              THEN @
              ELSE Append(@, <<EventKey(ProcessEvent), ProcessEvent.sides>>)]
    /\ UNCHANGED <<storeVars, api, tee>>

\* sl_l2_client.chain_id().await? fails: the transaction is dropped.
ProcessChainIdFails ==
    /\ ProcessBusy
    /\ interop.proc.i <= Len(interop.proc.events)
    /\ interop.proc.cfg.sl # None
    /\ interop' = [interop EXCEPT !.proc.pc = "done", !.proc.pend = <<>>,
                                  !.proc.res = Err(0)]
    /\ UNCHANGED <<storeVars, api, tee>>

\* set_interop_root fails: the transaction is dropped.
ProcessStoreFails ==
    /\ ProcessBusy
    /\ interop.proc.i <= Len(interop.proc.events)
    /\ ~Skips(interop.proc.cfg, ProcessEvent)
    /\ interop' = [interop EXCEPT !.proc.pc = "done", !.proc.pend = <<>>,
                                  !.proc.res = Err(0)]
    /\ UNCHANGED <<storeVars, api, tee>>

\* transaction.commit(), Ok(events_count)
ProcessCommit ==
    /\ ProcessBusy
    /\ interop.proc.i > Len(interop.proc.events)
    /\ interop' = [interop EXCEPT
          !.rows = ApplyWrites(@, interop.proc.pend),
          !.proc.pc = "done",
          !.proc.res = Ok(Len(interop.proc.events))]
    /\ UNCHANGED <<storeVars, api, tee>>

\* commit fails: nothing is written.
ProcessCommitFails ==
    /\ ProcessBusy
    /\ interop.proc.i > Len(interop.proc.events)
    /\ interop' = [interop EXCEPT !.proc.pc = "done", !.proc.pend = <<>>,
                                  !.proc.res = Err(0)]
    /\ UNCHANGED <<storeVars, api, tee>>

\* The watcher takes the result.
ProcessReturn ==
    /\ interop.proc.pc = "done"
    /\ interop' = [interop EXCEPT !.proc = ProcIdle]
    /\ UNCHANGED <<storeVars, api, tee>>

----------------------------------------------------------------------------
(* TEE DCAP collateral: update_certs and update_signing_ca *)

\* TeeDcapCollateralKind, the kinds the two functions deal with.
CollateralKinds == {"RootCa", "RootCrl", "PckCa", "PckCrl", "SignCa"}

\* What the subject of a certificate contains.
Subjects == {"Root CA", "Platform CA", "Signing"}

\* cert.signature.raw_bytes()
Signatures == {"sigA", "sigB"}

Certificates == [subject : Subjects, signature : Signatures]

\* The chains load_pem_chain yields.
Chains == UNION {[1..n -> Certificates] : n \in 0..MaxCerts}

\* The CRL bytes the Intel API gives: a CRL, or bytes that are none.
CrlData == {"crlA", "notDer"}

\* CertificateList::from_der(&crl_data)
ParsesAsCrl(data) == data # "notDer"

\* sha2::Sha256 of the CRL bytes.
Sha256(data) == <<"sha256", data>>

\* coll: the hash stored per kind.  pc, fn, chain, crl, res, before: the
\* call under way and the statement it is at, its certificates, the PCK CRL
\* it was given, its result and the collateral it found.
\* ex: the last call of extract_json_body, strings being sequences of
\* characters.
TeeInit ==
    [coll |-> [k \in CollateralKinds |-> None],
     pc |-> "idle", fn |-> "none", chain |-> <<>>, crl |-> "crlA",
     res |-> [tag |-> "Ok", got |-> 0],
     before |-> [k \in CollateralKinds |-> None],
     ex |-> [called |-> FALSE, element |-> <<>>, body |-> <<>>,
             json |-> <<>>, res |-> Ok(<<>>)]]

\* !n of a usize: the bitwise complement.
BitNot(n) == UsizeMax - n

\* `!certs.len() == 2`: the complement of the length compared with 2.
NotTwoCerts(chain) == BitNot(Len(chain)) = 2

\* certs.iter().find(|cert| subject contains ..)
FindCert(chain, subject) ==
    LET at == {i \in 1..Len(chain) : chain[i].subject = subject}
    IN  IF at = {}
        THEN None
        ELSE Some(chain[CHOOSE i \in at : \A j \in at : i <= j])

\* if !matches!(dal.field_is_current(kind, hash, ..), Matches)
\*     { dal.update_field(kind, hash, ..) }
UpdateUnlessCurrent(coll, kind, hash) ==
    IF coll[kind] = Some(hash) THEN coll ELSE [coll EXCEPT ![kind] = Some(hash)]

TeeResult(tag, got) == [tag |-> tag, got |-> got]

\* The call returns.
TeeEnds(res) == tee' = [tee EXCEPT !.pc = "done", !.res = res]

\* The call goes on to its next statement with the collateral coll.
TeeGoes(pc, coll) == tee' = [tee EXCEPT !.pc = pc, !.coll = coll]

\* The call begins: the chain is loaded, counted and searched.
TeeBegin(fn, chain, crl, wanted, pc) ==
    /\ tee.pc = "idle"
    /\ LET call == [tee EXCEPT !.fn = fn, !.chain = chain, !.crl = crl,
                               !.before = tee.coll]
       IN  tee' =
              IF NotTwoCerts(chain)
              THEN [call EXCEPT !.pc = "done",
                                !.res = TeeResult("Expected2", Len(chain))]
              ELSE IF \E subject \in wanted : FindCert(chain, subject) = None
              THEN [call EXCEPT !.pc = "done", !.res = TeeResult("Panic", 0)]
              ELSE [call EXCEPT !.pc = pc]
    /\ UNCHANGED <<storeVars, api, interop>>

\* update_signing_ca(dal, functions, issuer_chain), up to the Signing
\* certificate found.
UpdateSigningCa(chain) ==
    TeeBegin("update_signing_ca", chain, "crlA", {"Signing"}, "SignCa")

\* update_signing_ca: SignCa is updated unless current, Ok(()).
UpdateSignCa ==
    /\ tee.pc = "SignCa"
    /\ tee' = [tee EXCEPT
          !.pc = "done", !.res = TeeResult("Ok", 0),
          !.coll = UpdateUnlessCurrent(@, "SignCa",
                       Unwrap(FindCert(tee.chain, "Signing")).signature)]
    /\ UNCHANGED <<storeVars, api, interop>>

\* update_certs(dal, functions), get_pck_crl having given the CRL and the
\* chain, up to the Root CA and Platform CA certificates found.
UpdateCerts(chain, crl) ==
    TeeBegin("update_certs", chain, crl, {"Root CA", "Platform CA"}, "RootCa")

\* update_certs: ApiClient::new or get_pck_crl fails.
UpdateCertsFetchFails ==
    /\ tee.pc = "idle"
    /\ tee' = [tee EXCEPT !.pc = "done", !.fn = "update_certs",
                          !.chain = <<>>, !.before = tee.coll,
                          !.res = TeeResult("FetchError", 0)]
    /\ UNCHANGED <<storeVars, api, interop>>

\* update_certs: RootCa is updated unless current.
UpdateRootCa ==
    /\ tee.pc = "RootCa"
    /\ TeeGoes("RootCrl",
               UpdateUnlessCurrent(tee.coll, "RootCa",
                   Unwrap(FindCert(tee.chain, "Root CA")).signature))
    /\ UNCHANGED <<storeVars, api, interop>>

\* update_root_crl(dal, functions) with the bytes fetched: RootCrl is
\* updated unless current, the bytes being parsed first.
UpdateRootCrl(data) ==
    /\ tee.pc = "RootCrl"
    /\ IF tee.coll["RootCrl"] = Some(Sha256(data))
       THEN TeeGoes("PckCa", tee.coll)
       ELSE IF ~ParsesAsCrl(data)
       THEN TeeEnds(TeeResult("Error", 0))
       ELSE TeeGoes("PckCa", [tee.coll EXCEPT !["RootCrl"] = Some(Sha256(data))])
    /\ UNCHANGED <<storeVars, api, interop>>

\* update_root_crl: the request for the CRL fails.
UpdateRootCrlFetchFails ==
    /\ tee.pc = "RootCrl"
    /\ TeeEnds(TeeResult("CrlFetchError", 0))
    /\ UNCHANGED <<storeVars, api, interop>>

\* update_certs: PckCa is updated unless current.
UpdatePckCa ==
    /\ tee.pc = "PckCa"
    /\ TeeGoes("PckCrl",
               UpdateUnlessCurrent(tee.coll, "PckCa",
                   Unwrap(FindCert(tee.chain, "Platform CA")).signature))
    /\ UNCHANGED <<storeVars, api, interop>>

\* update_certs: PckCrl is updated unless current, the bytes being parsed
\* first; Ok(()).
UpdatePckCrl ==
    /\ tee.pc = "PckCrl"
    /\ IF tee.coll["PckCrl"] = Some(Sha256(tee.crl))
       THEN TeeEnds(TeeResult("Ok", 0))
       ELSE IF ~ParsesAsCrl(tee.crl)
       THEN TeeEnds(TeeResult("Error", 0))
       ELSE tee' = [tee EXCEPT !.pc = "done", !.res = TeeResult("Ok", 0),
                               !.coll["PckCrl"] = Some(Sha256(tee.crl))]
    /\ UNCHANGED <<storeVars, api, interop>>

\* field_is_current or update_field fails at the statement the call is at:
\* the `?` returns, what was written before stays.
TeeDalFails ==
    /\ tee.pc \in CollateralKinds
    /\ TeeEnds(TeeResult("Error", 0))
    /\ UNCHANGED <<storeVars, api, interop>>

\* load_pem_chain fails: "Could not load a PEM chain".
TeePemFails(fn) ==
    /\ tee.pc = "idle"
    /\ tee' = [tee EXCEPT !.pc = "done", !.fn = fn, !.chain = <<>>,
                          !.before = tee.coll,
                          !.res = TeeResult("PemError", 0)]
    /\ UNCHANGED <<storeVars, api, interop>>

\* The caller takes the result.
TeeReturn ==
    /\ tee.pc = "done"
    /\ tee' = [TeeInit EXCEPT !.coll = tee.coll, !.ex = tee.ex]
    /\ UNCHANGED <<storeVars, api, interop>>

----------------------------------------------------------------------------
(* TEE DCAP collateral: extract_json_body *)

\* r#","signature":"#
SignatureKey ==
    <<",", "\"", "s", "i", "g", "n", "a", "t", "u", "r", "e", "\"",
      ":">>

\* The elements extract_json_body is called for: tcbInfo, enclaveIdentity.
BodyElements ==
    {<<"t", "c", "b", "I", "n", "f", "o">>,
     <<"e", "n", "c", "l", "a", "v", "e", "I", "d", "e", "n", "t",
           "i", "t", "y">>}

\* What the bodies are put together from: {"id":1  ,"v":[2]  }  the key of
\* the signature, and a beginning of it.
BodyPieces ==
    {<<"{", "\"", "i", "d", "\"", ":", "1">>,
     <<",", "\"", "v", "\"", ":", "[", "2", "]">>,
     <<"}">>,
     SignatureKey,
     <<",", "\"", "s", "i", "g">>}

RECURSIVE Concat(_)
Concat(pieces) ==
    IF pieces = <<>> THEN <<>> ELSE Head(pieces) \o Concat(Tail(pieces))

Bodies == {Concat(ps) : ps \in UNION {[1..n -> BodyPieces] : n \in 0..MaxPieces}}

\* {"<element>":<body>,"signature":"0f"}
SignedJson(element, body) ==
    <<"{", "\"">> \o element \o <<"\"", ":">> \o body \o SignatureKey
        \o <<"\"", "0", "f", "\"", "}">>

BodyIndexShort(element) == Len(element) + 3

\* let body_index = body_element.len() + 4;
BodyIndex(element) == Len(element) + 4

\* json_body.split_at(body_index)
SplitAt(s, i) == <<SubSeq(s, 1, i), SubSeq(s, i + 1, Len(s))>>

StartsWith(s, pattern) ==
    Len(s) >= Len(pattern) /\ SubSeq(s, 1, Len(pattern)) = pattern

RECURSIVE SplitNext(_, _)
\* .split(pattern).next(): the text before the first occurrence of the
\* pattern, all of it when there is none.
SplitNext(s, pattern) ==
    IF s = <<>> \/ StartsWith(s, pattern)
    THEN <<>>
    ELSE <<Head(s)>> \o SplitNext(Tail(s), pattern)

\* extract_json_body(json_body, body_element); split_at panics past the
\* end of the string.
ExtractJsonBody(json, element) ==
    IF BodyIndex(element) > Len(json)
    THEN Err(<<>>)
    ELSE Ok(SplitNext(SplitAt(json, BodyIndex(element))[2], SignatureKey))

\* extract_json_body is called for a signed JSON document.
ExtractCall(element, body) ==
    /\ tee.pc = "idle"
    /\ tee' = [tee EXCEPT !.ex =
          [called |-> TRUE, element |-> element, body |-> body,
           json |-> SignedJson(element, body),
           res |-> ExtractJsonBody(SignedJson(element, body), element)]]
    /\ UNCHANGED <<storeVars, api, interop>>

----------------------------------------------------------------------------
(* ConnectionPool: the connections the calls hold *)

\* The connections a try_init_genesis call holds: `storage` from access()
\* to the return; the transaction borrows it.
GenHeld(p) == IF gen[p].pc \in {"txn", "insert", "commit"} THEN 1 ELSE 0

\* The connections a store_next_block call holds: `storage` is a local of
\* the loop body, acquired at the head of an iteration and dropped at its
\* end.
StoreHeld(p) == IF st[p].pc = "insert" THEN 1 ELSE 0

\* state holds `storage` from access() to the return.
StateHeld == IF rd.pc \in {"first", "last"} THEN 1 ELSE 0

\* The connections a propose call holds between its steps.  `storage` of
\* line 194 is a reference to a temporary CtxStorage, which lives to the
\* end of the function body; drop(storage) drops the reference and leaves
\* the connection taken, so the call holds it through the polling loop.
ProposeHeld == IF pm.pc \in {"parent", "poll"} THEN 1 ELSE 0

\* The connections taken from the pool.
InUse ==
    GenHeld("g1") + StoreHeld("s1") + StateHeld + ProposeHeld

\* pool.access_storage_tagged("consensus") can hand out a connection.
PoolFree == InUse < pool

\* The tasks suspended in CtxStorage::access at the head of a polling
\* iteration, the pool having no connection left.
ProposeWaits == pm.pc = "poll" /\ ~PoolFree

StoreWaits(p) == st[p].pc = "poll" /\ ~PoolFree

----------------------------------------------------------------------------
(* Specification: genesis bootstrap and appends against one log *)

\* Store::new: no cursor.  The log holds the execution genesis miniblock
\* and no certificate.
InitStore ==
    /\ sealed = 0
    /\ certs = <<>>
    /\ gen = [p \in AllGenProcs |-> GenIdle]
    /\ st = [p \in StoreProcs |-> StIdle]
    /\ acked = {}
    /\ cursor = [installed |-> FALSE, next |-> 0]
    /\ actions = <<>>
    /\ rd = RdIdle
    /\ bk = BkIdle
    /\ pm = PmIdle
    /\ lock = "free"
    /\ cancel = NotCanceled
    /\ replica = None
    /\ rset = [p \in SetProcs |-> RsIdle]
    /\ rget = RgIdle
    /\ rlast = None
    /\ held = Ok(None)
    /\ lost = {}
    /\ failed = [t \in Tasks |-> "none"]
    /\ api = ApiInit
    /\ interop = InteropInit
    /\ tee = TeeInit

\* The Store on a pool with connections to spare.
Init ==
    /\ InitStore
    /\ pool = MaxPool

\* The Store on a pool of any size, a single connection included.
InitPool ==
    /\ InitStore
    /\ pool \in 1..MaxPool

Next ==
    \/ Seal
    \/ \E p \in GenProcs : GenReadNumber(p)
    \/ \E p \in GenProcs : GenCheck(p)
    \/ \E p \in GenProcs : GenInsert(p)
    \/ \E p \in GenProcs : GenCommit(p)
    \/ \E p \in StoreProcs : \E n \in BlockNumbers : StoreBegin(p, n)
    \/ \E p \in StoreProcs : StorePoll(p)
    \/ \E p \in StoreProcs : StoreInsert(p)
    \/ \E p \in StoreProcs : StoreReturn(p)

Spec == Init /\ [][Next]_vars

----------------------------------------------------------------------------
(* Specification: the bootstraps of one node racing with each other and
   with the appends *)

NextBoot ==
    \/ Seal
    \/ \E p \in NodeGenProcs : GenReadNumber(p)
    \/ \E p \in NodeGenProcs : GenCheck(p)
    \/ \E p \in NodeGenProcs : GenInsert(p)
    \/ \E p \in NodeGenProcs : GenCommit(p)
    \/ \E p \in StoreProcs : \E n \in BlockNumbers : StoreBegin(p, n)
    \/ \E p \in StoreProcs : StorePoll(p)
    \/ \E p \in StoreProcs : StoreInsert(p)
    \/ \E p \in StoreProcs : StoreReturn(p)

SpecBoot == Init /\ [][NextBoot]_vars

----------------------------------------------------------------------------
(* Specification: state() and block() racing with one bootstrap and the
   appends of one handle *)

ReadGenProcs == {"g1"}

OneStoreProc == {"s1"}

NextRead ==
    \/ Seal
    \/ \E p \in ReadGenProcs : GenReadNumber(p)
    \/ \E p \in ReadGenProcs : GenCheck(p)
    \/ \E p \in ReadGenProcs : GenInsert(p)
    \/ \E p \in ReadGenProcs : GenCommit(p)
    \/ \E p \in OneStoreProc : \E n \in BlockNumbers : StoreBegin(p, n)
    \/ \E p \in OneStoreProc : StorePoll(p)
    \/ \E p \in OneStoreProc : StoreInsert(p)
    \/ \E p \in OneStoreProc : StoreReturn(p)
    \/ StateBegin
    \/ StateFirst
    \/ StateLast
    \/ StateReturn
    \/ \E n \in BlockNumbers : BlockBegin(n)
    \/ BlockCertificate
    \/ BlockPayloadRead
    \/ BlockReturn

SpecRead == Init /\ [][NextRead]_vars

----------------------------------------------------------------------------
(* Specification: propose and verify racing with one bootstrap and the
   appends of one handle *)

NextPmSound ==
    \/ Seal
    \/ \E p \in ReadGenProcs : GenReadNumber(p)
    \/ \E p \in ReadGenProcs : GenCheck(p)
    \/ \E p \in ReadGenProcs : GenInsert(p)
    \/ \E p \in ReadGenProcs : GenCommit(p)
    \/ \E p \in OneStoreProc : \E n \in BlockNumbers : StoreBegin(p, n)
    \/ \E p \in OneStoreProc : StorePoll(p)
    \/ \E p \in OneStoreProc : StoreInsert(p)
    \/ \E p \in OneStoreProc : StoreReturn(p)
    \/ \E n \in BlockNumbers \ {0} : PmBegin("propose", n, Garbage)
    \/ \E n \in BlockNumbers \ {0} : \E c \in Candidates : PmBegin("verify", n, c)
    \/ ProposeParent
    \/ ProposePoll
    \/ PmReturn

\* The same, with storage calls of propose and verify that may fail.
NextPm ==
    \/ NextPmSound
    \/ (\E step \in PmSteps(pm.pc) : PmFailed(step))

SpecPm == Init /\ [][NextPm]_vars

\* try_init_genesis borrows the Store mutably (&mut self): on one handle
\* it runs while no store_next_block call does.
GenQuiet == \A p \in ReadGenProcs : gen[p].pc \in {"idle", "done"}

\* A node with the action queue: try_init_genesis and set_actions_queue
\* run on the one Store before or between the store_next_block calls,
\* which run concurrently.
NextFetch ==
    \/ Seal
    \/ SetActionsQueue
    \/ (StoresIdle /\ \E p \in ReadGenProcs : GenReadNumber(p))
    \/ \E p \in ReadGenProcs : GenCheck(p)
    \/ \E p \in ReadGenProcs : GenInsert(p)
    \/ \E p \in ReadGenProcs : GenCommit(p)
    \/ (GenQuiet /\ \E p \in StoreProcs : \E n \in BlockNumbers :
                        StoreBegin(p, n))
    \/ \E p \in StoreProcs : StoreCursorCheck(p)
    \/ \E p \in StoreProcs : StoreAdvance(p)
    \/ \E p \in StoreProcs : StorePush(p)
    \/ \E p \in StoreProcs : StorePoll(p)
    \/ \E p \in StoreProcs : StoreInsert(p)
    \/ \E p \in StoreProcs : StoreReturn(p)

SpecFetch == Init /\ [][NextFetch]_vars

\* The same node with one caller of store_next_block: the blocks are
\* offered one call after the other, in any order and any number of times.
NextFetchSeq ==
    \/ Seal
    \/ SetActionsQueue
    \/ (StoresIdle /\ \E p \in ReadGenProcs : GenReadNumber(p))
    \/ \E p \in ReadGenProcs : GenCheck(p)
    \/ \E p \in ReadGenProcs : GenInsert(p)
    \/ \E p \in ReadGenProcs : GenCommit(p)
    \/ (GenQuiet /\ \E p \in OneStoreProc : \E n \in BlockNumbers :
                        StoreBegin(p, n))
    \/ \E p \in OneStoreProc : StoreCursorCheck(p)
    \/ \E p \in OneStoreProc : StoreAdvance(p)
    \/ \E p \in OneStoreProc : StorePush(p)
    \/ \E p \in OneStoreProc : StorePoll(p)
    \/ \E p \in OneStoreProc : StoreInsert(p)
    \/ \E p \in OneStoreProc : StoreReturn(p)

SpecFetchSeq == Init /\ [][NextFetchSeq]_vars

\* The same caller against a storage whose calls may fail in the poll loop:
\* a call returns its error with the block pushed and not stored, and the
\* block is offered again.  Calls are made until MaxActions blocks have
\* been pushed.
NextFetchRetry ==
    \/ Seal
    \/ SetActionsQueue
    \/ (StoresIdle /\ \E p \in ReadGenProcs : GenReadNumber(p))
    \/ \E p \in ReadGenProcs : GenCheck(p)
    \/ \E p \in ReadGenProcs : GenInsert(p)
    \/ \E p \in ReadGenProcs : GenCommit(p)
    \/ (GenQuiet /\ Len(actions) < MaxActions /\ \E p \in OneStoreProc :
            \E n \in BlockNumbers : StoreBegin(p, n))
    \/ \E p \in OneStoreProc : StoreCursorCheck(p)
    \/ \E p \in OneStoreProc : StoreAdvance(p)
    \/ \E p \in OneStoreProc : StorePush(p)
    \/ \E p \in OneStoreProc : StorePoll(p)
    \/ \E p \in OneStoreProc : StoreInsert(p)
    \/ \E p \in OneStoreProc : \E step \in StoreSteps(st[p].pc) :
            StoreFailed(p, step)
    \/ \E p \in OneStoreProc : StoreReturn(p)

SpecFetchRetry == Init /\ [][NextFetchRetry]_vars

\* No read operation is in flight.
ReadersIdle == rd.pc = "idle" /\ bk.pc = "idle" /\ pm.pc = "idle"

\* The tasks of one node whose ctx may be cancelled at any moment: the
\* genesis bootstrap, one caller of store_next_block, and one caller of
\* the read operations, which it runs one after the other.
NextCancel ==
    \/ Seal
    \/ Cancel
    \/ SetActionsQueue
    \/ \E p \in ReadGenProcs : GenReadNumber(p)
    \/ \E p \in ReadGenProcs : GenCheck(p)
    \/ \E p \in ReadGenProcs : GenInsert(p)
    \/ \E p \in ReadGenProcs : GenCommit(p)
    \/ \E p \in ReadGenProcs : GenCanceled(p)
    \/ \E p \in OneStoreProc : \E n \in BlockNumbers : StoreBegin(p, n)
    \/ \E p \in OneStoreProc : StoreCursorCheck(p)
    \/ \E p \in OneStoreProc : StoreAdvance(p)
    \/ \E p \in OneStoreProc : StorePush(p)
    \/ \E p \in OneStoreProc : StorePoll(p)
    \/ \E p \in OneStoreProc : StoreInsert(p)
    \/ \E p \in OneStoreProc : StoreCanceled(p)
    \/ \E p \in OneStoreProc : StoreReturn(p)
    \/ (ReadersIdle /\ StateBegin)
    \/ StateFirst
    \/ StateLast
    \/ StateCanceled
    \/ StateReturn
    \/ (ReadersIdle /\ \E n \in BlockNumbers : BlockBegin(n))
    \/ BlockCertificate
    \/ BlockPayloadRead
    \/ BlockCanceled
    \/ BlockReturn
    \/ (ReadersIdle /\ \E n \in BlockNumbers \ {0} :
                           PmBegin("propose", n, Garbage))
    \/ ProposeParent
    \/ ProposePoll
    \/ PmCanceled
    \/ PmReturn

SpecCancel == Init /\ [][NextCancel]_vars

\* The consensus engine persisting and reading its replica state: two
\* callers of set_state and one of state, on a ctx that may be cancelled.
NextReplica ==
    \/ Cancel
    \/ \E p \in SetProcs : \E b \in Blobs : SetStateBegin(p, b)
    \/ \E p \in SetProcs : SetStateWrite(p)
    \/ \E p \in SetProcs : SetStateCanceled(p)
    \/ GetStateBegin
    \/ GetStateRead
    \/ GetStateCanceled
    \/ GetStateReturn

SpecReplica == Init /\ [][NextReplica]_vars

\* Two try_init_genesis calls and a reader of the range on a ctx that may
\* be cancelled: the transactions may commit, fail or be dropped.
NextTxn ==
    \/ Seal
    \/ Cancel
    \/ \E p \in GenProcs : GenReadNumber(p)
    \/ \E p \in GenProcs : GenCheck(p)
    \/ \E p \in GenProcs : GenInsert(p)
    \/ \E p \in GenProcs : GenCommit(p)
    \/ \E p \in GenProcs : GenCanceled(p)
    \/ StateBegin
    \/ StateFirst
    \/ StateLast
    \/ StateCanceled
    \/ StateReturn

SpecTxn == Init /\ [][NextTxn]_vars

\* One caller of store_next_block that is offered consensus block numbers
\* of the whole u64 range, on a node with or without the action queue.
NextWide ==
    \/ Seal
    \/ SetActionsQueue
    \/ (StoresIdle /\ \E p \in ReadGenProcs : GenReadNumber(p))
    \/ \E p \in ReadGenProcs : GenCheck(p)
    \/ \E p \in ReadGenProcs : GenInsert(p)
    \/ \E p \in ReadGenProcs : GenCommit(p)
    \/ (GenQuiet /\ \E p \in OneStoreProc : \E n \in WideNumbers :
                        StoreBegin(p, n))
    \/ \E p \in OneStoreProc : StoreCursorCheck(p)
    \/ \E p \in OneStoreProc : StoreAdvance(p)
    \/ \E p \in OneStoreProc : StorePush(p)
    \/ \E p \in OneStoreProc : StorePoll(p)
    \/ \E p \in OneStoreProc : StoreInsert(p)
    \/ \E p \in OneStoreProc : StoreReturn(p)

SpecWide == Init /\ [][NextWide]_vars

\* The readers and the genesis bootstrap on a log that is also changed
\* from outside of the Store: miniblocks are reverted and certificates
\* deleted.
NextFault ==
    \/ Seal
    \/ RevertBlocks
    \/ DeleteCertificates
    \/ \E p \in ReadGenProcs : GenReadNumber(p)
    \/ \E p \in ReadGenProcs : GenCheck(p)
    \/ \E p \in ReadGenProcs : GenInsert(p)
    \/ \E p \in ReadGenProcs : GenCommit(p)
    \/ StateBegin
    \/ StateFirst
    \/ StateLast
    \/ StateReturn
    \/ \E n \in BlockNumbers : BlockBegin(n)
    \/ BlockCertificate
    \/ BlockPayloadRead
    \/ BlockReturn

SpecFault == Init /\ [][NextFault]_vars

\* No call is in flight but try_init_genesis.
AllIdle ==
    /\ ReadersIdle
    /\ StoresIdle
    /\ rget.pc = "idle"
    /\ \A p \in SetProcs : rset[p].pc = "idle"

\* The task persisting the replica state where one is enough.
OneSetProc == {"w1"}

\* The operations of the two stores, one call at a time next to
\* try_init_genesis, against a storage whose calls may fail.
NextFail ==
    \/ Seal
    \/ \E p \in ReadGenProcs : GenReadNumber(p)
    \/ \E p \in ReadGenProcs : GenCheck(p)
    \/ \E p \in ReadGenProcs : GenInsert(p)
    \/ \E p \in ReadGenProcs : GenCommit(p)
    \/ \E p \in ReadGenProcs : \E step \in GenSteps(gen[p].pc) :
            GenFailed(p, step)
    \/ (AllIdle /\ \E p \in OneStoreProc : \E n \in BlockNumbers :
                       StoreBegin(p, n))
    \/ \E p \in OneStoreProc : StorePoll(p)
    \/ \E p \in OneStoreProc : StoreInsert(p)
    \/ \E p \in OneStoreProc : \E step \in StoreSteps(st[p].pc) :
            StoreFailed(p, step)
    \/ \E p \in OneStoreProc : StoreReturn(p)
    \/ (AllIdle /\ StateBegin)
    \/ StateFirst
    \/ StateLast
    \/ (\E step \in StateSteps(rd.pc) : StateFailed(step))
    \/ StateReturn
    \/ (AllIdle /\ \E n \in BlockNumbers : BlockBegin(n))
    \/ BlockCertificate
    \/ BlockPayloadRead
    \/ (\E step \in BlockSteps(bk.pc) : BlockFailed(step))
    \/ BlockReturn
    \/ (AllIdle /\ \E n \in BlockNumbers \ {0} :
            PmBegin("propose", n, Garbage))
    \/ (AllIdle /\ \E n \in BlockNumbers \ {0} :
            \E c \in Candidates : PmBegin("verify", n, c))
    \/ ProposeParent
    \/ ProposePoll
    \/ (\E step \in PmSteps(pm.pc) : PmFailed(step))
    \/ PmReturn
    \/ (AllIdle /\ \E p \in OneSetProc : \E b \in Blobs : SetStateBegin(p, b))
    \/ \E p \in OneSetProc : SetStateWrite(p)
    \/ \E p \in OneSetProc : \E step \in SetStateSteps :
            SetStateFailed(p, step)
    \/ (AllIdle /\ GetStateBegin)
    \/ GetStateRead
    \/ (\E step \in GetStateSteps : GetStateFailed(step))
    \/ GetStateReturn

SpecFail == Init /\ [][NextFail]_vars

\* The bootstraps of one node and the appends of one handle, with a caller
\* of state that compares each range with the one it got before.
NextRange ==
    \/ Seal
    \/ \E p \in NodeGenProcs : GenReadNumber(p)
    \/ \E p \in NodeGenProcs : GenCheck(p)
    \/ \E p \in NodeGenProcs : GenInsert(p)
    \/ \E p \in NodeGenProcs : GenCommit(p)
    \/ \E p \in OneStoreProc : \E n \in BlockNumbers : StoreBegin(p, n)
    \/ \E p \in OneStoreProc : StorePoll(p)
    \/ \E p \in OneStoreProc : StoreInsert(p)
    \/ \E p \in OneStoreProc : StoreReturn(p)
    \/ StateBegin
    \/ StateFirst
    \/ StateLast
    \/ StateKeep

SpecRange == Init /\ [][NextRange]_vars

\* A node that goes into follower mode: its own pipeline seals miniblocks
\* until the cursor is installed, and only fetched blocks afterwards; one
\* handle bootstraps and appends, one call at a time.
NextFollower ==
    \/ (~cursor.installed /\ Seal)
    \/ SealFetched
    \/ SetActionsQueue
    \/ (StoresIdle /\ \E p \in ReadGenProcs : GenReadNumber(p))
    \/ \E p \in ReadGenProcs : GenCheck(p)
    \/ \E p \in ReadGenProcs : GenInsert(p)
    \/ \E p \in ReadGenProcs : GenCommit(p)
    \/ (GenQuiet /\ \E p \in OneStoreProc : \E n \in BlockNumbers :
                        StoreBegin(p, n))
    \/ \E p \in OneStoreProc : StoreCursorCheck(p)
    \/ \E p \in OneStoreProc : StoreAdvance(p)
    \/ \E p \in OneStoreProc : StorePush(p)
    \/ \E p \in OneStoreProc : StorePoll(p)
    \/ \E p \in OneStoreProc : StoreInsert(p)
    \/ \E p \in OneStoreProc : StoreReturn(p)

SpecFollower == Init /\ [][NextFollower]_vars

\* The follower whose storage calls may fail in the poll loop: the consensus
\* engine calls store_next_block again for a block whose call failed, on the
\* cursor the first call advanced (set_actions_queue is called once).
NextRetry ==
    \/ (~cursor.installed /\ Seal)
    \/ SealFetched
    \/ (~cursor.installed /\ SetActionsQueue)
    \/ (StoresIdle /\ \E p \in ReadGenProcs : GenReadNumber(p))
    \/ \E p \in ReadGenProcs : GenCheck(p)
    \/ \E p \in ReadGenProcs : GenInsert(p)
    \/ \E p \in ReadGenProcs : GenCommit(p)
    \/ (GenQuiet /\ \E p \in OneStoreProc : \E n \in BlockNumbers :
                        StoreBegin(p, n))
    \/ \E p \in OneStoreProc : StoreCursorCheck(p)
    \/ \E p \in OneStoreProc : StoreAdvance(p)
    \/ \E p \in OneStoreProc : StorePush(p)
    \/ \E p \in OneStoreProc : StorePoll(p)
    \/ \E p \in OneStoreProc : StoreInsert(p)
    \/ \E p \in OneStoreProc : \E step \in StoreSteps(st[p].pc) :
            StoreFailed(p, step)
    \/ \E p \in OneStoreProc : StoreReturn(p)

SpecRetry == Init /\ [][NextRetry]_vars

\* One call of an operation at a time on a pool that may have a single
\* connection: a step that calls CtxStorage::access is taken when the pool
\* has a connection left.
NextPool ==
    \/ Seal
    \/ (PoolFree /\ \E p \in ReadGenProcs : GenReadNumber(p))
    \/ \E p \in ReadGenProcs : GenCheck(p)
    \/ \E p \in ReadGenProcs : GenInsert(p)
    \/ \E p \in ReadGenProcs : GenCommit(p)
    \/ \E p \in OneStoreProc : \E n \in BlockNumbers : StoreBegin(p, n)
    \/ (PoolFree /\ \E p \in OneStoreProc : StorePoll(p))
    \/ \E p \in OneStoreProc : StoreInsert(p)
    \/ \E p \in OneStoreProc : StoreReturn(p)
    \/ (PoolFree /\ StateBegin)
    \/ StateFirst
    \/ StateLast
    \/ StateReturn
    \/ (PoolFree /\ \E n \in BlockNumbers \ {0} :
            PmBegin("propose", n, Garbage))
    \/ ProposeParent
    \/ (PoolFree /\ ProposePoll)
    \/ (\E step \in PmSteps(pm.pc) : PmFailed(step))
    \/ PmReturn

SpecPool == InitPool /\ [][NextPool]_vars

\* Every operation of the three stores on one handle in follower mode, one
\* call at a time next to the bootstrap and the execution pipeline.
NextFrame ==
    \/ Seal
    \/ SetActionsQueue
    \/ (StoresIdle /\ \E p \in ReadGenProcs : GenReadNumber(p))
    \/ \E p \in ReadGenProcs : GenCheck(p)
    \/ \E p \in ReadGenProcs : GenInsert(p)
    \/ \E p \in ReadGenProcs : GenCommit(p)
    \/ (GenQuiet /\ AllIdle /\ \E p \in OneStoreProc :
            \E n \in BlockNumbers : StoreBegin(p, n))
    \/ \E p \in OneStoreProc : StoreCursorCheck(p)
    \/ \E p \in OneStoreProc : StoreAdvance(p)
    \/ \E p \in OneStoreProc : StorePush(p)
    \/ \E p \in OneStoreProc : StorePoll(p)
    \/ \E p \in OneStoreProc : StoreInsert(p)
    \/ \E p \in OneStoreProc : StoreReturn(p)
    \/ (AllIdle /\ StateBegin)
    \/ StateFirst
    \/ StateLast
    \/ StateReturn
    \/ (AllIdle /\ \E n \in BlockNumbers : BlockBegin(n))
    \/ BlockCertificate
    \/ BlockPayloadRead
    \/ BlockReturn
    \/ (AllIdle /\ \E n \in BlockNumbers \ {0} :
            PmBegin("propose", n, Garbage))
    \/ (AllIdle /\ \E n \in BlockNumbers \ {0} :
            \E c \in Candidates : PmBegin("verify", n, c))
    \/ ProposeParent
    \/ ProposePoll
    \/ (\E step \in PmSteps(pm.pc) : PmFailed(step))
    \/ PmReturn
    \/ (AllIdle /\ \E p \in OneSetProc : \E b \in Blobs :
            SetStateBegin(p, b))
    \/ \E p \in OneSetProc : SetStateWrite(p)
    \/ (AllIdle /\ GetStateBegin)
    \/ GetStateRead
    \/ GetStateReturn

SpecFrame == Init /\ [][NextFrame]_vars

\* The follower handed blocks whose payload may be no payload at all.
NextDecode ==
    \/ Seal
    \/ SetActionsQueue
    \/ (StoresIdle /\ \E p \in ReadGenProcs : GenReadNumber(p))
    \/ \E p \in ReadGenProcs : GenCheck(p)
    \/ \E p \in ReadGenProcs : GenInsert(p)
    \/ \E p \in ReadGenProcs : GenCommit(p)
    \/ (GenQuiet /\ \E p \in OneStoreProc : \E n \in BlockNumbers :
            \E wire \in {CertifiedPayload(p, n), Garbage} :
                StoreBeginBlock(p, n, wire))
    \/ \E p \in OneStoreProc : StoreCursorCheck(p)
    \/ \E p \in OneStoreProc : StoreAdvance(p)
    \/ \E p \in OneStoreProc : StorePush(p)
    \/ \E p \in OneStoreProc : StorePoll(p)
    \/ \E p \in OneStoreProc : StoreInsert(p)
    \/ \E p \in OneStoreProc : StoreReturn(p)

SpecDecode == Init /\ [][NextDecode]_vars

\* The API server of the node: the wrapper task, the tasks it spawns and
\* the garbage collector.
NextApi ==
    \/ ApiBuildFails
    \/ ApiBuild
    \/ \E i \in ApiTasks : \E outcome \in Outcomes :
            ApiTaskFinishes(i, outcome)
    \/ ApiSelect
    \/ GcReceive
    \/ GcJoin

SpecApi == Init /\ [][NextApi]_vars

\* The roots the callers of InteropRootDal deal with: two of one chain, and
\* one of another chain with the dependency block of the first.
SeenKeys == {<<1, 1>>, <<1, 2>>, <<2, 1>>}

\* The callers of InteropRootDal, one call after the other: the watcher
\* storing roots (all events with the same sides), the state keeper taking,
\* marking and, on a revert, resetting them.
NextInterop ==
    \/ \E k \in SeenKeys : InteropSet(k, "sidesA")
    \/ \E n \in 0..Cardinality(SeenKeys) : InteropGetNew(n)
    \/ \E roots \in SUBSET SeenKeys : \E b \in RootBlocks :
            InteropMark(roots, b)
    \/ \E roots \in SUBSET SeenKeys : \E b \in RootBlocks :
            InteropMarkFails(roots, b)
    \/ \E b \in RootBlocks : InteropReset(b)

SpecInterop == Init /\ [][NextInterop]_vars

\* The eth watcher alone: one InteropRootProcessor or another is given a
\* batch of events.
NextWatch ==
    \/ \E cfg \in Configs : \E events \in EventBatches :
            ProcessBegin(cfg, events)
    \/ \E cfg \in Configs : \E events \in EventBatches :
            ProcessBeginFails(cfg, events)
    \/ ProcessNext
    \/ ProcessChainIdFails
    \/ ProcessStoreFails
    \/ ProcessCommit
    \/ ProcessCommitFails
    \/ ProcessReturn

SpecWatch == Init /\ [][NextWatch]_vars

\* The collateral updater calling update_certs and update_signing_ca with
\* the issuer chains the Intel API gives.
NextTee ==
    \/ \E chain \in Chains : UpdateSigningCa(chain)
    \/ UpdateSignCa
    \/ \E chain \in Chains : \E crl \in CrlData : UpdateCerts(chain, crl)
    \/ UpdateCertsFetchFails
    \/ UpdateRootCa
    \/ \E data \in CrlData : UpdateRootCrl(data)
    \/ UpdateRootCrlFetchFails
    \/ UpdatePckCa
    \/ UpdatePckCrl
    \/ TeeDalFails
    \/ \E fn \in {"update_certs", "update_signing_ca"} : TeePemFails(fn)
    \/ TeeReturn

SpecTee == Init /\ [][NextTee]_vars

\* extract_json_body applied to the signed documents of the bodies.
NextExtract ==
    \E element \in BodyElements : \E body \in Bodies :
        ExtractCall(element, body)

SpecExtract == Init /\ [][NextExtract]_vars

\* The cancellable tasks as the runtime schedules them: a task that can
\* take a step is polled again, and a ctx.wait or ctx.sleep returns once
\* the signal is given.  The push to the action queue completes when the
\* execution pipeline makes room in the queue, which nothing in the Store
\* brings about: StorePush is given no fairness.
SpecCancelFair ==
    /\ SpecCancel
    /\ \A p \in ReadGenProcs : WF_vars(GenCanceled(p))
    /\ \A p \in OneStoreProc : WF_vars(StoreCursorCheck(p))
    /\ \A p \in OneStoreProc : WF_vars(StoreAdvance(p))
    /\ \A p \in OneStoreProc : WF_vars(StoreCanceled(p))
    /\ WF_vars(StateCanceled)
    /\ WF_vars(BlockCanceled)
    /\ WF_vars(PmCanceled)

\* The same tasks under the scheduling the runtime gives them: a task that
\* can take its next step is polled again (the loops retry every
\* POLL_INTERVAL), and the execution pipeline keeps sealing miniblocks.
\* No storage call fails.
SpecPmFair ==
    /\ Init /\ [][NextPmSound]_vars
    /\ WF_vars(Seal)
    /\ WF_vars(ProposeParent)
    /\ WF_vars(ProposePoll)
    /\ \A p \in OneStoreProc : WF_vars(StorePoll(p))
    /\ \A p \in OneStoreProc : WF_vars(StoreInsert(p))

----------------------------------------------------------------------------
(* Claims C1 to C6 *)

GenesisRows == {i \in 1..Len(certs) : IsGenesis(certs[i])}

StoreRows == {i \in 1..Len(certs) : ~IsGenesis(certs[i])}

StoredNumbers == {certs[i].number : i \in 1..Len(certs)}

\* C1: store_next_block goes on to insert the certificate of block N only
\* after a poll iteration that read a last sealed number >= N, and no
\* certificate written by store_next_block is ahead of the last sealed
\* miniblock.
C1_CertificateNotAheadOfExecution ==
    /\ \A p \in StoreProcs :
          st[p].pc = "insert" => st[p].read >= st[p].number
    /\ \A i \in StoreRows : certs[i].number <= sealed

\* Two calls for increasing numbers were in flight and the certificate of
\* the block sealed last is stored.
C1_Witness ==
    /\ \E i \in StoreRows : certs[i].number = sealed /\ sealed >= 2
    /\ Cardinality(StoreRows) >= 2

\* C2: after one genesis bootstrap followed by successful store_next_block
\* calls, state() reports first = the genesis certificate and last = the
\* certificate with the highest stored number, and block(n) returns a block
\* for every n from first to last.
C2_RangeContiguous ==
    Cardinality(GenesisRows) = 1 =>
        /\ StateNow.ok
        /\ StateNow.val # None
        /\ LET range == Unwrap(StateNow.val)
           IN  /\ IsGenesis(range.first)
               /\ \A n \in StoredNumbers :
                     range.first.number <= n /\ n <= range.last.number
               /\ range.last.number \in StoredNumbers
               /\ \A n \in range.first.number..range.last.number :
                     \A op \in Operators :
                        BlockNow(n, op).ok /\ BlockNow(n, op).val # None

\* A genesis certificate followed by two certificates of store_next_block.
C2_Witness ==
    /\ Cardinality(GenesisRows) = 1
    /\ Cardinality(StoreRows) >= 2

\* C3: every certificate persisted by store_next_block was persisted when
\* the certificate of its parent block was stored, and has a higher number
\* than every certificate persisted before it.
C3_ParentStoredFirst ==
    \A j \in StoreRows :
        /\ \E i \in 1..(j - 1) : certs[i].number = certs[j].number - 1
        /\ \A i \in 1..(j - 1) : certs[i].number < certs[j].number

\* Two certificates were appended and a call for a repeated or a
\* non-consecutive number has been turned down.
C3_Witness ==
    /\ Cardinality(StoreRows) >= 2
    /\ \E p \in StoreProcs : st[p].pc = "done" /\ st[p].res = "err"

\* C4: at most one certificate is stored per block number.
C4_OneCertificatePerNumber ==
    \A i, j \in 1..Len(certs) :
        certs[i].number = certs[j].number => i = j

\* C5: concurrent try_init_genesis calls leave exactly one genesis
\* certificate and a contiguous certified range.
C5_OneGenesisCertificate ==
    /\ Cardinality(GenesisRows) <= 1
    /\ \A n \in BlockNumbers :
          (\E a, b \in StoredNumbers : a < n /\ n < b) => n \in StoredNumbers

\* C6: a try_init_genesis call that begins after another one has returned
\* Ok(()) finds the first certificate, writes nothing and returns Ok(());
\* one genesis certificate is stored.
C6_SecondGenesisIsNoOp ==
    \A p \in AllGenProcs :
        (gen[p].second /\ gen[p].pc \notin {"idle", "txn"}) =>
            /\ gen[p].pc = "done"
            /\ gen[p].res = "ok"
            /\ gen[p].pend = None
            /\ Cardinality(GenesisRows) = 1

\* The second call has returned, after the pipeline sealed further blocks
\* and store_next_block appended a certificate since the first call.
C6_Witness ==
    \E p \in AllGenProcs :
        /\ gen[p].second
        /\ gen[p].pc = "done"
        /\ gen[p].number > 0
        /\ StoreRows # {}
        /\ \E q \in AllGenProcs \ {p} : gen[q].pend # None /\ gen[q].number < gen[p].number

----------------------------------------------------------------------------
(* Claims C7 to C10 *)

\* C7: a state() call begun after store_next_block returned Ok(()) for block
\* N reports a range with last >= N, and a block(N) call begun after it
\* returns the block.
C7_ReadsSeeCompletedAppends ==
    /\ (rd.pc = "done" /\ rd.ackStart # {}) =>
          /\ rd.res.ok
          /\ rd.res.val # None
          /\ \A n \in rd.ackStart : Unwrap(rd.res.val).last.number >= n
    /\ (bk.pc = "done" /\ bk.number \in bk.ackStart) =>
          /\ bk.res.ok
          /\ bk.res.val # None

\* Both calls have returned, begun after an append had returned, and a
\* further append was committed between the two queries of state().
C7_Witness ==
    /\ rd.pc = "done"
    /\ rd.ackStart # {}
    /\ rd.rowsLast > rd.rowsFirst
    /\ bk.pc = "done"
    /\ bk.number \in bk.ackStart

\* C8: state() returns Ok(None) exactly when no certificate is stored when
\* it looks for the first one; with the genesis certificate of the
\* bootstrap as the only certificate stored, it returns the range whose
\* first and last are that certificate, for the block number the bootstrap
\* read as last sealed.
C8_StateAbsentOrGenesisRange ==
    rd.pc = "done" =>
        /\ rd.res.ok
        /\ rd.res.val = None <=> rd.rowsFirst = 0
        /\ (rd.res.val # None /\ rd.rowsLast = 1) =>
              /\ IsGenesis(certs[1])
              /\ Unwrap(rd.res.val) = [first |-> certs[1], last |-> certs[1]]
              /\ \E p \in AllGenProcs :
                    /\ gen[p].pc = "done"
                    /\ gen[p].pend = Some(certs[1])
                    /\ certs[1].number = gen[p].number

\* state() has returned the range of the genesis certificate alone, for a
\* bootstrap that found block 1 sealed.
C8_Witness ==
    /\ rd.pc = "done"
    /\ rd.res.val # None
    /\ rd.rowsLast = 1
    /\ certs[1].number = 1

\* C9: block(n) never fails; it returns Ok(None) exactly when no certificate
\* for n is stored when it looks for it, it returns the block when
\* store_next_block had returned Ok(()) for n before, and a block it
\* returns holds a stored certificate for n and the payload the execution
\* pipeline recorded for n.
C9_BlockFoundIffCertificateStored ==
    bk.pc = "done" =>
        /\ bk.res.ok
        /\ bk.res.val # None <=>
              \E i \in 1..bk.rowsCert : certs[i].number = bk.number
        /\ bk.number \in bk.ackStart => bk.res.val # None
        /\ bk.res.val # None =>
              LET block == Unwrap(bk.res.val)
              IN  /\ block.justification \in Range(certs)
                  /\ block.justification.number = bk.number
                  /\ block.payload.hash = PayloadHash(bk.number)
                  /\ block.payload.operator_addr = OperatorOf("reader")

\* block(n) has returned a block that store_next_block stored.
C9_Witness ==
    /\ bk.pc = "done"
    /\ bk.res.val # None
    /\ bk.number \in bk.ackStart
    /\ bk.number = MaxBlock

ParentStoredAtCheck ==
    \E i \in 1..pm.rowsParent : certs[i].number = pm.number - 1

\* C10: propose(n) and verify(n, p) fail with the missing-parent error,
\* before any iteration of the polling loop, when their lookup finds no
\* certificate for n - 1 stored; with that certificate stored they enter
\* the loop and do not fail with that error.  A call whose storage call
\* failed returns the error of that call.
C10_MissingParent ==
    /\ (pm.pc = "done" /\ ~ParentStoredAtCheck) =>
          /\ ~pm.res.ok
          /\ ~pm.polled
          /\ IF failed["pm"] = "none"
             THEN pm.res.val = "parent is missing"
             ELSE pm.res.val = failed["pm"]
    /\ pm.pc = "poll" => ParentStoredAtCheck
    /\ (pm.pc = "done" /\ ParentStoredAtCheck) =>
          /\ pm.polled \/ failed["pm"] \in PmSteps("poll")
          /\ pm.res.ok \/ pm.res.val # "parent is missing"

\* verify failed for the missing parent although the payload of its block
\* was available when the parent was looked up; the parent certificate has
\* been stored since.
C10_Witness ==
    /\ pm.pc = "done"
    /\ pm.op = "verify"
    /\ ~pm.res.ok
    /\ pm.res.val = "parent is missing"
    /\ pm.sealedParent >= pm.number
    /\ Certificate(Range(certs), pm.number - 1) # None

----------------------------------------------------------------------------
(* Claims C11 to C20 *)

\* C11: a call of propose(n) that found the certificate of n - 1 returns:
\* once the parent lookup has passed, the polling loop ends, given that the
\* execution pipeline comes to produce the payload of n and the task keeps
\* being polled.
C11_ProposeEventuallyReturns ==
    (pm.pc \in {"parent", "poll"}) ~> (pm.pc = "done")

\* propose(n) began before miniblock n was sealed, polled without finding
\* the payload, and then returned it.
C11_Witness ==
    /\ pm.pc = "done"
    /\ pm.op = "propose"
    /\ pm.res.ok
    /\ pm.polled
    /\ pm.sealedParent < pm.number
    /\ pm.res.val = Encode(Unwrap(BlockPayload(sealed, pm.number,
                                               OperatorOf("reader"))))

\* The payload this node holds for the block verify was called with.
LocalPayload ==
    [hash |-> PayloadHash(pm.number), operator_addr |-> OperatorOf("reader")]

\* C12: once verify(n, p) has got the local payload of n, it succeeds when p is
\* what propose(n) returns, and it returns the error "unexpected payload"
\* when p decodes to a payload that differs from the local one in any field.
C12_VerifyAcceptsExactlyTheLocalPayload ==
    (pm.pc = "done" /\ pm.op = "verify" /\ pm.polled
        /\ failed["pm"] = "none") =>
        /\ pm.cand = Encode(LocalPayload) => pm.res.ok
        /\ (Decode(pm.cand) # None /\ Unwrap(Decode(pm.cand)) # LocalPayload)
               => (~pm.res.ok /\ pm.res.val = "unexpected payload")

\* verify has rejected a candidate that decodes and differs from the local
\* payload in the operator address only.
C12_Witness ==
    /\ pm.pc = "done"
    /\ pm.op = "verify"
    /\ pm.polled
    /\ Decode(pm.cand) # None
    /\ Unwrap(Decode(pm.cand)).hash = LocalPayload.hash
    /\ Unwrap(Decode(pm.cand)).operator_addr # LocalPayload.operator_addr
    /\ ~pm.res.ok
    /\ pm.res.val = "unexpected payload"

\* The row a store_next_block call writes, and whether the call has
\* written it.
StoreRow(p) == Row(st[p].number, OperatorOf(p), QcOf(p))

WroteRow(p) ==
    /\ st[p].wrote
    /\ \E i \in 1..Len(certs) : certs[i] = StoreRow(p)

\* C19: a store_next_block call in its poll loop returns, given that the
\* execution pipeline keeps sealing and the task keeps being polled; a
\* call that returned Ok(()) has stored its certificate; and while the
\* last sealed miniblock is below the block of the call, the call has
\* neither returned nor written its row.
C19_StoreWaitsThenReturns ==
    /\ \A p \in OneStoreProc :
           [](st[p].number > sealed =>
                  (st[p].pc # "done" /\ st[p].pc # "insert" /\ ~WroteRow(p)))
    /\ \A p \in OneStoreProc :
           []((st[p].pc = "done" /\ st[p].res = "ok") => WroteRow(p))
    /\ \A p \in OneStoreProc :
           (st[p].pc = "poll") ~> (st[p].pc = "done")

\* A call found its block not sealed, kept polling, and returned Ok(())
\* with its certificate stored once the block was sealed.
C19_Witness ==
    \E p \in OneStoreProc :
        /\ st[p].pc = "done"
        /\ st[p].res = "ok"
        /\ st[p].waited
        /\ st[p].number >= 1
        /\ WroteRow(p)

\* The call of task p is past the forwarding path.
PastForwarding(p) == st[p].pc \in {"poll", "insert", "done"}

\* C13: with a cursor installed, a call whose block is at or beyond the
\* position it compared with advances the cursor past the block and pushes
\* the actions of the block; a call whose block is behind pushes nothing
\* and goes on to the poll loop and the insert.  Without a cursor nothing
\* is ever pushed.
C13_ForwardAtOrBeyondCursor ==
    /\ ~cursor.installed => (actions = <<>> /\ \A p \in StoreProcs : ~st[p].pushed)
    /\ \A p \in StoreProcs :
        /\ st[p].pc \in {"advance", "push"} =>
               (cursor.installed /\ st[p].seen <= st[p].number)
        /\ st[p].pc = "push" =>
               (cursor.next = st[p].number + 1 /\ cursor.next > st[p].seen)
        /\ (PastForwarding(p) /\ cursor.installed) =>
               (st[p].pushed <=> st[p].seen <= st[p].number)
        /\ st[p].pushed =>
               \E i \in 1..Len(actions) : actions[i] = st[p].number

\* With a cursor installed, one call has pushed its block and another,
\* whose block was behind the cursor, pushed nothing and has run its
\* insert.
C13_Witness ==
    /\ cursor.installed
    /\ \E p, q \in StoreProcs :
           /\ st[p].pc = "done" /\ st[p].res # "canceled"
           /\ st[p].seen > st[p].number /\ ~st[p].pushed
           /\ PastForwarding(q) /\ st[q].pushed
           /\ st[q].seen <= st[q].number

\* The action queue holds the actions of increasing block numbers.
ActionsIncreasing ==
    \A i, j \in 1..Len(actions) : i < j => actions[i] < actions[j]

\* The action stream holds the actions of a block number at most once.
ActionsAtMostOnce ==
    \A i, j \in 1..Len(actions) : i # j => actions[i] # actions[j]

\* The next expected block number of the installed cursor never decreases.
CursorNeverDecreases ==
    [][cursor.installed => cursor'.next >= cursor.next]_vars

\* Only the forwarding step of store_next_block changes the installed
\* cursor.
CursorChangedByForwardingOnly ==
    [][(cursor.installed /\ cursor' # cursor) =>
          \E p \in StoreProcs : st[p].pc = "advance" /\ st'[p].pc = "push"]_vars

\* C14: when the blocks are offered one call after the other, in any order
\* and with repetitions, the action stream holds the actions of a block
\* number at most once, the next expected block number of the installed
\* cursor never decreases, and only the forwarding step of
\* store_next_block changes the installed cursor.
C14_AtMostOncePerBlock ==
    /\ []ActionsAtMostOnce
    /\ CursorNeverDecreases
    /\ CursorChangedByForwardingOnly

\* C15: with concurrent store_next_block calls on one Store, the actions
\* reach the queue in increasing block number order and the actions of no
\* block are pushed twice.
C15_ConcurrentForwardingInOrder == ActionsIncreasing

\* C16: no task holds the cursor mutex while it is suspended in the push
\* to the action queue (nor in a pool access, a query or a poll sleep).
C16_LockNotHeldAcrossWait ==
    \A p \in StoreProcs :
        st[p].pc \in {"push", "poll", "insert"} => lock # p

\* C17: a store_next_block call that was in its poll loop when ctx was
\* cancelled returns Canceled, a result other than the storage error, and
\* has written no row: the certificate of its block is not stored by it.
C17_CancelInPollLoop ==
    \A p \in OneStoreProc :
        /\ (cancel.on /\ cancel.at[p] = "poll" /\ st[p].pc = "done") =>
               (st[p].res = "canceled" /\ st[p].res # "err" /\ ~WroteRow(p))
        /\ (st[p].pc = "done" /\ st[p].res = "canceled") =>
               (cancel.on /\ ~WroteRow(p))

\* A call was waiting for its block when ctx was cancelled; the block has
\* been sealed since, and the call returned Canceled without its row.
C17_Witness ==
    \E p \in OneStoreProc :
        /\ cancel.on
        /\ cancel.at[p] = "poll"
        /\ st[p].pc = "done"
        /\ st[p].res = "canceled"
        /\ st[p].waited
        /\ sealed >= st[p].number
        /\ ~WroteRow(p)
        /\ \A i \in 1..Len(certs) : certs[i].number # st[p].number

\* C18: once ctx is cancelled, every operation in flight returns: each of
\* its suspension points gives up, so no call stays blocked.
C18_CancelUnblocksEveryOperation ==
    /\ \A p \in OneStoreProc :
           (cancel.on /\ st[p].pc \in {"check", "advance", "push", "poll",
                                       "insert"})
               ~> (st[p].pc = "done")
    /\ \A p \in ReadGenProcs :
           (cancel.on /\ gen[p].pc \in {"txn", "insert", "commit"})
               ~> (gen[p].pc = "done")
    /\ (cancel.on /\ rd.pc \in {"first", "last"}) ~> (rd.pc = "done")
    /\ (cancel.on /\ bk.pc \in {"cert", "payload"}) ~> (bk.pc = "done")
    /\ (cancel.on /\ pm.pc \in {"parent", "poll"}) ~> (pm.pc = "done")

\* C20: state() returns the blob of the latest set_state that completed,
\* or the empty value when none has; set_state replaces whatever is stored,
\* so the stored blob is always the latest one and no earlier blob is
\* observable.
C20_StateReturnsLastSetState ==
    /\ replica = rlast
    /\ (rget.pc = "done" /\ rget.res.ok) => rget.res.val = rget.expect

\* Two blobs were persisted one after the other and state() returned the
\* second.
C20_Witness ==
    /\ rget.pc = "done"
    /\ rget.res.ok
    /\ rget.res.val = Some("b2")
    /\ rlast = Some("b2")
    /\ \E p, q \in SetProcs :
           /\ rset[p].wrote /\ rset[p].blob = "b1"
           /\ rset[q].wrote /\ rset[q].blob = "b2"

----------------------------------------------------------------------------
(* Claims C21 to C30 *)

\* The call of task p has committed its genesis certificate.
GenCommitted(p) ==
    gen[p].pc = "done" /\ gen[p].res = "ok" /\ gen[p].pend # None

\* C21: the row a try_init_genesis call wrote inside its transaction is not
\* among the rows other accessors read until the commit succeeds, and a
\* call that returned early, failed or was cancelled after
\* start_transaction has left no certificate: the log holds no genesis
\* certificate of its operator.
C21_TransactionWritesInvisibleUntilCommit ==
    \A p \in GenProcs :
        /\ gen[p].pc = "commit" =>
               \A i \in 1..Len(certs) : certs[i] # Unwrap(gen[p].pend)
        /\ (gen[p].pc = "done" /\ ~GenCommitted(p)) =>
               \A i \in 1..Len(certs) :
                   ~(IsGenesis(certs[i]) /\ certs[i].operator = OperatorOf(p))

\* A call was cancelled with its row written and not committed; the log
\* holds no certificate of its operator, and state() does not report one.
C21_Witness ==
    \E p \in GenProcs :
        /\ gen[p].pc = "done"
        /\ gen[p].res = "canceled"
        /\ gen[p].dropped
        /\ \A i \in 1..Len(certs) : certs[i].operator # OperatorOf(p)

\* C22: a store_next_block call whose block number does not fit the
\* execution layer's block number has failed with the overflow error,
\* having pushed nothing and written nothing; it is never found waiting in
\* the poll loop, with or without a cursor.
C22_OverflowFailsWithoutWaiting ==
    \A p \in OneStoreProc :
        st[p].number > U32Max =>
            /\ st[p].pc = "done"
            /\ st[p].res = "overflow"
            /\ ~st[p].pushed
            /\ ~st[p].wrote

\* C23: block(n) that found the certificate of n and no payload returns
\* the error "miniblock disappeared from storage", and state() that found
\* a first certificate and no last certificate returns the error "genesis
\* block disappeared from db"; neither returns an empty result.
C23_InconsistencyIsAnError ==
    /\ (bk.pc = "done" /\ bk.cert # None /\ bk.payload = None) =>
           (~bk.res.ok /\ bk.res.val = "miniblock disappeared from storage")
    /\ (rd.pc = "done" /\ rd.first # None /\ rd.last = None) =>
           (~rd.res.ok /\ rd.res.val = "genesis block disappeared from db")

\* block(n) read the certificate and then found the miniblock reverted,
\* and state() read a first certificate and then found the table empty.
C23_Witness ==
    /\ bk.pc = "done" /\ bk.cert # None /\ bk.payload = None
    /\ ~bk.res.ok
    /\ rd.pc = "done" /\ rd.first # None /\ rd.last = None
    /\ ~rd.res.ok

\* C24: a failing storage call ends its operation with the error naming
\* that call, never with success or an empty result; an empty result of
\* state, block or ReplicaStore::state comes only from a query that found
\* no certificate or no replica state.
C24_StorageErrorsPropagate ==
    /\ \A p \in ReadGenProcs :
          failed[p] # "none" =>
             gen[p].pc = "done" /\ gen[p].res = failed[p]
    /\ \A p \in OneStoreProc :
          failed[p] # "none" =>
             st[p].pc = "done" /\ st[p].res = failed[p] /\ ~st[p].wrote
    /\ failed["rd"] # "none" =>
          rd.pc = "done" /\ rd.res = Err(failed["rd"])
    /\ failed["bk"] # "none" =>
          bk.pc = "done" /\ bk.res = Err(failed["bk"])
    /\ failed["pm"] # "none" =>
          pm.pc = "done" /\ pm.res = Err(failed["pm"])
    /\ failed["rget"] # "none" =>
          rget.pc = "done" /\ rget.res = Err(failed["rget"])
    /\ \A p \in OneSetProc :
          failed[p] # "none" => rset[p].pc = "idle" /\ ~rset[p].wrote
    /\ (rd.pc = "done" /\ rd.res = Ok(None)) =>
          rd.first = None /\ rd.rowsFirst = 0
    /\ (bk.pc = "done" /\ bk.res = Ok(None)) =>
          Certificate({certs[i] : i \in 1..bk.rowsCert}, bk.number) = None
    /\ (rget.pc = "done" /\ rget.res = Ok(None)) => rget.expect = None

\* Two operations have failed in a storage call: try_init_genesis in its
\* commit, and store_next_block in its insert, state in its second query,
\* block or propose in the payload query, or the replica store in its query.
C24_Witness ==
    /\ failed["g1"] = "commit()"
    /\ \/ failed["s1"] = "insert_certificate()"
       \/ failed["rd"] = "last_certificate()"
       \/ failed["bk"] = "payload()"
       \/ failed["pm"] = "payload()"
       \/ failed["rget"] = "replica_state()"
       \/ failed["w1"] = "set_replica_state()"

\* C25: a propose(n) that succeeds returns the encoded payload of miniblock
\* n with this node's operator address and of no other miniblock, and it
\* returns only once miniblock n is sealed.
C25_ProposeReturnsPayloadOfItsBlock ==
    (pm.pc = "done" /\ pm.op = "propose" /\ pm.res.ok) =>
        /\ pm.number <= sealed
        /\ pm.res.val = Encode(LocalPayload)
        /\ \A m \in BlockNumbers \ {pm.number} :
              pm.res.val # Encode([hash |-> PayloadHash(m),
                                   operator_addr |-> OperatorOf("reader")])

\* propose(1) has returned the payload of miniblock 1 while miniblock 2,
\* sealed as well, has a payload of its own.
C25_Witness ==
    /\ pm.pc = "done"
    /\ pm.op = "propose"
    /\ pm.res.ok
    /\ pm.number = 1
    /\ sealed >= 2
    /\ pm.polled
    /\ pm.res.val = Encode(LocalPayload)

\* C26: every stored certificate, the genesis one included, is of a sealed
\* miniblock whose payload the log yields for any operator address; block
\* never returns "miniblock disappeared from storage" and state never
\* returns "genesis block disappeared from db".
C26_CertifiedBlocksHavePayloads ==
    /\ \A i \in 1..Len(certs) :
          /\ certs[i].number <= sealed
          /\ \A op \in Operators :
                BlockPayload(sealed, certs[i].number, op) # None
    /\ bk.pc = "done" => bk.res # Err("miniblock disappeared from storage")
    /\ rd.pc = "done" => rd.res # Err("genesis block disappeared from db")

\* With the genesis certificate and an appended one stored, the last of them
\* for the miniblock sealed last, block has returned that block and state
\* would return a range.
C26_Witness ==
    /\ GenesisRows # {}
    /\ \E i \in StoreRows : certs[i].number = sealed
    /\ bk.pc = "done"
    /\ bk.number = sealed
    /\ bk.res.ok
    /\ bk.res.val # None
    /\ bk.payload # None
    /\ rd.pc = "done"
    /\ rd.res.ok
    /\ rd.res.val # None

\* C27: once state has returned a range, a later state that succeeds
\* returns a range again, with the same first certificate and a last
\* certificate whose number is not lower.
C27_RangeOnlyGrows ==
    (held.val # None /\ rd.pc = "done" /\ rd.res.ok) =>
        /\ rd.res.val # None
        /\ Unwrap(rd.res.val).first = Unwrap(held.val).first
        /\ Unwrap(rd.res.val).last.number >= Unwrap(held.val).last.number

\* C28: a range returned by a state call that races with appends and
\* bootstraps has first.number <= last.number, its first certificate was
\* stored when the first query ran and its last certificate when the second
\* query ran, and the call never returns "genesis block disappeared from
\* db".
C28_RacingStateReturnsStoredRange ==
    /\ (rd.pc = "done" /\ rd.res.ok /\ rd.res.val # None) =>
          LET range == Unwrap(rd.res.val)
          IN  /\ range.first.number <= range.last.number
              /\ \E i \in 1..rd.rowsFirst : certs[i] = range.first
              /\ \E i \in 1..rd.rowsLast : certs[i] = range.last
    /\ rd.pc = "done" => rd.res # Err("genesis block disappeared from db")

\* A certificate was committed between the two queries of a state call,
\* which returned it as the last of a range with more than one block.
C28_Witness ==
    /\ rd.pc = "done"
    /\ rd.res.ok
    /\ rd.res.val # None
    /\ rd.rowsLast > rd.rowsFirst
    /\ Unwrap(rd.res.val).first.number < Unwrap(rd.res.val).last.number
    /\ \A i \in 1..rd.rowsFirst : certs[i] # Unwrap(rd.res.val).last

\* The follower under the scheduling its runtime gives it: the task of the
\* call is polled again whenever it can take a step, the execution pipeline
\* takes the actions out of the queue (so a push completes) and seals a
\* block whose actions it has received.
SpecFollowerFair ==
    /\ SpecFollower
    /\ WF_vars(SealFetched)
    /\ \A p \in OneStoreProc : WF_vars(StoreCursorCheck(p))
    /\ \A p \in OneStoreProc : WF_vars(StoreAdvance(p))
    /\ \A p \in OneStoreProc : WF_vars(StorePush(p))
    /\ \A p \in OneStoreProc : WF_vars(StorePoll(p))
    /\ \A p \in OneStoreProc : WF_vars(StoreInsert(p))

\* The call of the task is for the block the cursor expects next, not sealed
\* yet, and the certificate of its parent is stored.
NextExpected(p) ==
    /\ cursor.installed
    /\ st[p].pc = "check"
    /\ st[p].number = cursor.next
    /\ st[p].number > sealed
    /\ Certificate(Range(certs), PrevBlock(st[p].number)) # None

\* C29: with a cursor installed and an execution pipeline that seals block
\* N only after it received the actions of N, a store_next_block call for
\* the block the cursor expects next pushes the actions before it polls,
\* and it ends with the certificate stored.
C29_FollowerStoresNextExpected ==
    /\ [](\A p \in OneStoreProc :
            (PastForwarding(p) /\ cursor.installed
                 /\ st[p].seen <= st[p].number /\ st[p].seen > 0)
               => st[p].pushed)
    /\ \A p \in OneStoreProc :
          NextExpected(p) ~>
             (st[p].pc = "done" /\ st[p].res = "ok" /\ WroteRow(p))

\* A call for the block expected next has pushed its actions, found the
\* block not sealed in a first poll, and stored the certificate after the
\* pipeline sealed the block.
C29_Witness ==
    \E p \in OneStoreProc :
        /\ st[p].pc = "done"
        /\ st[p].res = "ok"
        /\ WroteRow(p)
        /\ st[p].pushed
        /\ st[p].waited
        /\ st[p].seen = st[p].number
        /\ sealed = st[p].number

\* How many times the actions of block n were pushed, and how many
\* certificates store_next_block has stored for it.
PushCount(n) == Cardinality({i \in 1..Len(actions) : actions[i] = n})

StoredCount(n) == Cardinality({i \in StoreRows : certs[i].number = n})

\* C30: after a store_next_block call for block N pushed N's actions and
\* failed before storing the certificate, a later call for N pushes nothing,
\* the actions of N stay pushed exactly once, at most one certificate of N
\* is stored, and a later call that returns Ok has stored it.
C30_RetryPushesNothingAndStores ==
    /\ \A n \in lost : PushCount(n) = 1 /\ StoredCount(n) <= 1
    /\ \A p \in OneStoreProc :
          (st[p].number \in lost /\ st[p].pc # "idle") =>
             /\ st[p].pushed => (st[p].pc = "done" /\ failed[p] # "none")
             /\ (st[p].pc = "done" /\ st[p].res = "ok") =>
                   (WroteRow(p) /\ StoredCount(st[p].number) = 1)

\* A call for a block whose earlier call pushed the actions and failed has
\* found the cursor past the block, pushed nothing, waited for the block to
\* be sealed, and stored the certificate.
C30_Witness ==
    \E p \in OneStoreProc :
        /\ st[p].number \in lost
        /\ st[p].pc = "done"
        /\ st[p].res = "ok"
        /\ st[p].seen > st[p].number
        /\ ~st[p].pushed
        /\ st[p].waited
        /\ WroteRow(p)
        /\ PushCount(st[p].number) = 1

----------------------------------------------------------------------------
(* Claims C31 to C38 *)

\* C31: no call is suspended in CtxStorage::access, waiting for a
\* connection of the pool, while it holds a connection itself: neither
\* propose at the head of a polling iteration nor store_next_block.
C31_NoWaitWhileHoldingConnection ==
    /\ ~(ProposeWaits /\ ProposeHeld > 0)
    /\ \A p \in OneStoreProc : ~(StoreWaits(p) /\ StoreHeld(p) > 0)

\* C32: a step of state, block, propose, verify or ReplicaStore::state
\* leaves the certificates, the replica state, the fetcher cursor and the
\* action queue as they are; a step of set_state leaves the certificates,
\* the cursor and the queue as they are; a step of try_init_genesis or
\* store_next_block leaves the replica state as it is.
C32_ReadsChangeNothing ==
    [][/\ (rd' # rd \/ bk' # bk \/ pm' # pm \/ rget' # rget) =>
             UNCHANGED <<certs, replica, cursor, actions>>
       /\ rset' # rset => UNCHANGED <<certs, cursor, actions>>
       /\ (gen' # gen \/ st' # st) => UNCHANGED replica]_vars

\* verify has reported a mismatch and ReplicaStore::state has returned the
\* blob on a handle with certificates, a replica state, a cursor and pushed
\* actions.
C32_Witness ==
    /\ pm.pc = "done"
    /\ pm.op = "verify"
    /\ pm.res = Err("unexpected payload")
    /\ Len(certs) >= 2
    /\ replica # None
    /\ cursor.installed
    /\ actions # <<>>

\* C33: with a cursor installed, a store_next_block call for a block whose
\* payload does not decode has returned the decoding error at once: it
\* never compared the block with the cursor, pushed nothing, and wrote no
\* certificate, and no step of the call changes the cursor, the queue or
\* the certificates.
C33_UndecodablePayloadFailsFirst ==
    [][\A p \in OneStoreProc :
          /\ (cursor.installed /\ st[p].bad) =>
                /\ st[p].pc = "done"
                /\ st[p].res = "decode"
                /\ st[p].seen = 0
                /\ ~st[p].pushed
                /\ ~st[p].wrote
          /\ (cursor.installed /\ st'[p].bad) =>
                UNCHANGED <<cursor, actions, certs>>]_vars

\* The call has failed on a block that is behind the cursor and sealed, with
\* the certificate of its parent stored.
C33_Witness ==
    \E p \in OneStoreProc :
        /\ cursor.installed
        /\ st[p].bad
        /\ st[p].pc = "done"
        /\ st[p].res = "decode"
        /\ st[p].number < cursor.next
        /\ st[p].number <= sealed
        /\ Certificate(Range(certs), PrevBlock(st[p].number)) # None
        /\ Certificate(Range(certs), st[p].number) = None

\* The tasks of the API server under the scheduling of the runtime: both
\* run methods are polled when they can go on, the service runs the wrapper
\* task, and the API tasks, which watch the stop signal, come to an end.
SpecApiFair ==
    /\ SpecApi
    /\ WF_vars(ApiBuild \/ ApiBuildFails)
    /\ \A i \in ApiTasks :
          WF_vars(\E outcome \in Outcomes : ApiTaskFinishes(i, outcome))
    /\ WF_vars(ApiSelect)
    /\ WF_vars(GcReceive)
    /\ WF_vars(GcJoin)

\* C34: Web3ApiTask::run returns after a first API task has finished, with
\* that task's result, having sent the handles of all the other tasks once;
\* nothing is sent more than once.  ApiTaskGarbageCollector::run returns
\* Ok(()) and nothing else, without waiting when the sender was dropped and
\* after every handed-over task has finished otherwise, and it always
\* returns.
C34_ApiTasksHandedOverOnce ==
    /\ [](/\ api.sends <= 1
          /\ (api.web = "done" /\ api.chan = "sent") =>
                /\ api.sends = 1
                /\ Finished(api.first)
                /\ api.res = RunResult(api.task[api.first])
                /\ api.rem = ApiTasks \ {api.first}
          /\ (api.web = "done" /\ api.chan = "dropped") =>
                (api.sends = 0 /\ api.res = "err")
          /\ api.gc = "done" =>
                /\ api.gcRes = "ok"
                /\ api.chan = "dropped" \/ \A i \in api.rem : Finished(i))
    /\ <>(api.gc = "done")

\* The wrapper returned the error of the first task and the garbage
\* collector returned after the other tasks, one of which panicked.
C34_Witness ==
    /\ api.web = "done"
    /\ api.res = "err"
    /\ api.chan = "sent"
    /\ api.task[api.first] = "err"
    /\ api.gc = "done"
    /\ \E i \in api.rem : api.task[i] = "panic"
    /\ \E i \in api.rem : api.task[i] = "ok"

\* C35: get_new_interop_roots returns only unprocessed roots;
\* mark_interop_roots_as_executed(roots, b) assigns b to the listed
\* unprocessed roots and changes no other row, or, failing, no row at all;
\* reset_interop_roots_state(b) makes exactly the roots processed at b
\* unprocessed; and when no root was processed at b before the mark, the
\* reset of b after the mark leaves the unprocessed roots as they were
\* before the mark.
C35_MarkThenResetRestoresNewRoots ==
    /\ [](/\ interop.op = "get" => interop.res \subseteq Unprocessed(interop.rows)
          /\ interop.trip.stage = "reset" /\ interop.trip.clean
                => Unprocessed(interop.rows) = interop.trip.before)
    /\ [][/\ \A roots \in SUBSET SeenKeys : \A b \in RootBlocks :
                InteropMark(roots, b) =>
                    \A k \in RootKeys :
                        IF k \in roots /\ k \in Unprocessed(interop.rows)
                        THEN interop.rows'[k] =
                                Some([Unwrap(interop.rows[k])
                                         EXCEPT !.processed = Some(b)])
                        ELSE interop.rows'[k] = interop.rows[k]
          /\ interop.op' = "markfail" => interop.rows' = interop.rows
          /\ \A b \in RootBlocks :
                InteropReset(b) =>
                    /\ Unprocessed(interop.rows') =
                          Unprocessed(interop.rows)
                             \cup ProcessedAt(interop.rows, b)
                    /\ \A c \in RootBlocks \ {b} :
                          ProcessedAt(interop.rows', c) =
                             ProcessedAt(interop.rows, c)]_vars

\* A mark of two listed roots, one unprocessed and one already processed in
\* another block, has been reset: the first is unprocessed again, the
\* second kept its block.
C35_Witness ==
    /\ interop.op = "reset"
    /\ interop.trip.stage = "reset"
    /\ interop.trip.clean
    /\ interop.trip.hit # {}
    /\ \E k \in RootKeys :
          /\ interop.rows[k] # None
          /\ Unwrap(interop.rows[k]).processed \notin {None, Some(interop.trip.b)}

\* The statement without the condition on the block: every reset of b after
\* a mark at b restores the unprocessed roots.
C35_EveryResetRestoresNewRoots ==
    interop.trip.stage = "reset"
        => Unprocessed(interop.rows) = interop.trip.before

\* C36: process_events stores the roots of a batch all or not at all: when
\* it returns an error (the chain id could not be fetched, a root could not
\* be stored, the transaction could not be begun or committed) the table is
\* as before; when it succeeds it returns the number of events given,
\* skipped ones included, and has stored exactly the roots of the events
\* that come neither from the L1 messenger address nor from the node's own
\* chain nor, for the L1 source, from the settlement layer chain.
C36_ProcessEventsAllOrNothing ==
    interop.proc.pc = "done" =>
        LET p == interop.proc
            kept == {i \in 1..Len(p.events) :
                        /\ p.events[i].address # "L1_MESSENGER_ADDRESS"
                        /\ p.events[i].chain # OwnChain
                        /\ ~(/\ p.cfg.source = "L1"
                             /\ p.cfg.sl = Some(p.events[i].chain))}
        IN  IF p.res.ok
            THEN /\ p.res.val = Len(p.events)
                 /\ {p.pend[j][1] : j \in 1..Len(p.pend)} =
                       {EventKey(p.events[i]) : i \in kept}
                 /\ \A k \in RootKeys :
                       IF \E i \in kept : EventKey(p.events[i]) = k
                       THEN interop.rows[k] # None
                       ELSE interop.rows[k] = p.before[k]
            ELSE interop.rows = p.before

\* A batch of two events of which the first was skipped, being of the
\* node's own chain, has been stored: the result counts both.
C36_Witness ==
    /\ interop.proc.pc = "done"
    /\ interop.proc.res.ok
    /\ interop.proc.res.val = 2
    /\ Len(interop.proc.pend) = 1
    /\ interop.proc.events[1].chain = OwnChain
    /\ interop.proc.events[1].address = "other"
    /\ interop.rows # interop.proc.before

\* C37: update_certs and update_signing_ca, given a chain of N certificates
\* with N other than 2, return the error 'Expected 2 certificates in the
\* chain, got N' and leave the collateral as it was.
C37_ChainOfTwoCertificatesRequired ==
    (/\ tee.pc # "idle"
     /\ tee.res.tag \notin {"FetchError", "PemError"}
     /\ Len(tee.chain) # 2) =>
        /\ tee.pc = "done"
        /\ tee.res = TeeResult("Expected2", Len(tee.chain))
        /\ tee.coll = tee.before

Occurs(pattern, s) ==
    \E n \in 0..Len(s) : StartsWith(SubSeq(s, n + 1, Len(s)), pattern)

\* C38: for the input {"<element>":<body>,"signature":"..."}
\* extract_json_body returns the text after the first len(element) + 4
\* characters and before the first occurrence of ,"signature": and that
\* text is <body> when <body> does not itself contain ,"signature":
C38_ExtractJsonBodyReturnsBody ==
    tee.ex.called =>
        LET rest == SubSeq(tee.ex.json, Len(tee.ex.element) + 5,
                           Len(tee.ex.json))
            out == tee.ex.res.val
        IN  /\ tee.ex.res.ok
            /\ StartsWith(rest, out \o SignatureKey)
            /\ ~Occurs(SignatureKey,
                       SubSeq(out \o SignatureKey, 1,
                              Len(out) + Len(SignatureKey) - 1))
            /\ ~Occurs(SignatureKey, tee.ex.body) => out = tee.ex.body

\* The body of enclaveIdentity, holding a beginning of the signature key
\* but not the key, has been extracted whole.
C38_Witness ==
    /\ tee.ex.called
    /\ Len(tee.ex.element) = 15
    /\ Len(tee.ex.body) > 5
    /\ Occurs(<<",", "\"", "s", "i", "g">>, tee.ex.body)
    /\ tee.ex.res.ok
    /\ tee.ex.res.val = tee.ex.body

\* The statement for every body: extract_json_body returns <body>.
C38_ExtractJsonBodyReturnsEveryBody ==
    tee.ex.called => tee.ex.res.ok /\ tee.ex.res.val = tee.ex.body

====
